---- MODULE Spec2Model ----
(***************************************************************************)
(* Model of the access-request decision engine (agents/decision_engine.py) *)
(* of the UAM agent.  One evaluation of DecisionEngine.evaluate_request is *)
(* a process whose position is pc; every step is one call the method       *)
(* makes, translated from its code.                                        *)
(*                                                                         *)
(* Conventions.  Text is a TLA+ string, handled character by character     *)
(* (Lower, Strip, Split, Contains are what str.lower, str.strip, str.split *)
(* and `in` do).  A missing dictionary key, None and a NaN cell are the    *)
(* empty string "" wherever the code only tests the value for truth.       *)
(* priority_score is kept in hundredths (8500 is 85.00) and confidence in  *)
(* hundredths as well (95 is 0.95).                                        *)
(***************************************************************************)
EXTENDS Integers, Sequences, FiniteSets, TLC

VARIABLES
    pc,                   \* position of the evaluation inside evaluate_request
    request_type,         \* argument request_type
    requested_permission, \* argument requested_permission (a local the method rewrites)
    user_context,         \* dict returned by get_user_context, mutated in place
    ai_client,            \* whether self.ai_enhancer.client is set
    use_ai_reasoning,     \* config.USE_AI_REASONING
    master_tracker,       \* data rows of the master tracker sheet, in sheet order
    rule,                 \* the PermissionRule found, or the temporary rule
    pre_requisites_status,\* result of _check_pre_requisites
    priority_score,       \* result of _calculate_priority_score, in hundredths
    similar_requests,     \* result of get_similar_requests: auto_granted flags
    validation,           \* what _check_master_tracker_validation computed
    ai_response,          \* the reasoning service's answer to the decision prompt
    result,               \* the dict evaluate_request returns
    calls,                \* the calls made so far, in order
    request_id,           \* id of the request record process_request created
    ticketing,            \* what the ticketing side does when _create_ticket runs
    execution,            \* the dict _execute_decision returns
    store,                \* the request records and the audit entries stored
    requests_submitted,   \* number of process_request calls made so far
    evaluations,          \* the locals of each of the concurrent evaluations
    shared                \* the rule catalog and the sheet the concurrent evaluations read

\* the variables of UAMAgent.process_request around the evaluation
process_vars == <<request_id, ticketing, execution, store, requests_submitted>>

\* the variables of the concurrent evaluations
concurrent_vars == <<evaluations, shared>>

vars == <<pc, request_type, requested_permission, user_context, ai_client,
          use_ai_reasoning, master_tracker, rule, pre_requisites_status,
          priority_score, similar_requests, validation, ai_response, result, calls,
          request_id, ticketing, execution, store, requests_submitted,
          evaluations, shared>>

-----------------------------------------------------------------------------
(* Bounds of the model *)

\* longest list of completed trainings a user context carries
MaxTrainings == 1
\* the similar-request history is empty or holds this many records
MaxSimilar == 10

-----------------------------------------------------------------------------
(* The catalog, the sheet and the texts an evaluation runs on *)

\* the permission_rules table, in table order (the id is the position)
RuleCatalog ==
    << [id |-> 1, permission_type |-> "Application Access",
        permission_name |-> "Salesforce Access",
        pre_requisites |-> <<"Valid Employee ID", "Department Approval", "Security Training",
                             "Role", "Manager Approval">>,
        priority_level |-> "medium", auto_grant_enabled |-> TRUE],
       [id |-> 2, permission_type |-> "Application Access",
        permission_name |-> "ServiceNow Access",
        pre_requisites |-> <<"Valid Employee ID", "Manager Approval">>,
        priority_level |-> "low", auto_grant_enabled |-> TRUE],
       [id |-> 3, permission_type |-> "System Access",
        permission_name |-> "Linux Server Access",
        pre_requisites |-> <<"Valid Employee ID", "IT Department", "Security Clearance",
                             "Manager Approval">>,
        priority_level |-> "low", auto_grant_enabled |-> FALSE],
       [id |-> 4, permission_type |-> "Network Access",
        permission_name |-> "VPN Access",
        pre_requisites |-> <<"Valid Employee ID", "", "Security Training">>,
        priority_level |-> "High", auto_grant_enabled |-> TRUE],
       [id |-> 5, permission_type |-> "Clinical Access",
        permission_name |-> "Medidata - Data Analyst - (Read-Only)",
        pre_requisites |-> <<"Valid Employee ID", "Department", "Manager Approval",
                             "Security Clearance", "Database Training", "Role", "Badge">>,
        priority_level |-> "", auto_grant_enabled |-> TRUE] >>

\* the data rows of the master tracker sheet
TrackerRows ==
    << [role |-> "Data Analyst", application |-> "Medidata",
        training_required |-> "Database Security Training", exception_scenario |-> ""],
       [role |-> "Data Analyst", application |-> "Salesforce",
        training_required |-> "None",
        exception_scenario |-> "Role not permitted for contractors"],
       [role |-> "Developer", application |-> "Salesforce",
        training_required |-> "Database Training",
        exception_scenario |-> "Not permitted for Non Finance resources"],
       [role |-> "Support", application |-> "VPN",
        training_required |-> "",
        exception_scenario |-> "Interns and external users not permitted"] >>

\* the sheet is absent or unreadable, or holds the rows
Trackers == {<<>>, TrackerRows}

\* (request_type, requested_permission) pairs submitted
Requests ==
    { <<"application_access", "Medidata - Data Analyst - (Read-Only)">>,
      <<"application_access", "Salesforce - Data Analyst">>,
      <<"system_access", "Salesforce - Developer">>,
      <<"network_access", "VPN - Support">>,
      <<"badge", "Door">> }

TrainingNames == <<"Database Basics", "database security training", "Security Database Course">>

\* values of the text fields of a user context ("" is an unset field)
Departments == {"", "Finance"}
Roles == {"", "Data Analyst"}
EmployeeTypes == {"", "Contractor", "Intern"}

-----------------------------------------------------------------------------
(* Python string primitives *)

CharAt(s, i) == SubSeq(s, i, i)

UpperLetters ==
    {"A", "B", "C", "D", "E", "F", "G", "H", "I", "J", "K", "L", "M",
     "N", "O", "P", "Q", "R", "S", "T", "U", "V", "W", "X", "Y", "Z"}

\* the lower-case form of one character
LowerChar(c) ==
    IF c \notin UpperLetters THEN c ELSE
    CASE c = "A" -> "a" [] c = "B" -> "b" [] c = "C" -> "c" [] c = "D" -> "d"
      [] c = "E" -> "e" [] c = "F" -> "f" [] c = "G" -> "g" [] c = "H" -> "h"
      [] c = "I" -> "i" [] c = "J" -> "j" [] c = "K" -> "k" [] c = "L" -> "l"
      [] c = "M" -> "m" [] c = "N" -> "n" [] c = "O" -> "o" [] c = "P" -> "p"
      [] c = "Q" -> "q" [] c = "R" -> "r" [] c = "S" -> "s" [] c = "T" -> "t"
      [] c = "U" -> "u" [] c = "V" -> "v" [] c = "W" -> "w" [] c = "X" -> "x"
      [] c = "Y" -> "y" [] c = "Z" -> "z"
      [] OTHER -> c

\* str.lower(), character by character (the string is halved to keep the
\* evaluation shallow)
RECURSIVE Lower(_)
Lower(s) ==
    IF Len(s) = 0 THEN ""
    ELSE IF Len(s) = 1 THEN LowerChar(s)
    ELSE Lower(SubSeq(s, 1, Len(s) \div 2))
         \o Lower(SubSeq(s, Len(s) \div 2 + 1, Len(s)))

\* `sub in s` for two strings
Contains(sub, s) ==
    \E i \in 0..(Len(s) - Len(sub)) : SubSeq(s, i + 1, i + Len(sub)) = sub

RECURSIVE LStrip(_)
LStrip(s) ==
    IF s # "" /\ CharAt(s, 1) = " " THEN LStrip(SubSeq(s, 2, Len(s))) ELSE s

RECURSIVE RStrip(_)
RStrip(s) ==
    IF s # "" /\ CharAt(s, Len(s)) = " " THEN RStrip(SubSeq(s, 1, Len(s) - 1)) ELSE s

\* str.strip()
Strip(s) == RStrip(LStrip(s))

\* str.split(sep) for a one-character separator
RECURSIVE SplitOn(_, _)
SplitOn(s, sep) ==
    LET at == {j \in 1..Len(s) : CharAt(s, j) = sep}
    IN  IF at = {} THEN <<s>>
        ELSE LET i == CHOOSE j \in at : \A k \in at : j <= k
             IN  <<SubSeq(s, 1, i - 1)>> \o SplitOn(SubSeq(s, i + 1, Len(s)), sep)

\* str.split(): split on runs of blanks, no empty words
Split(s) == SelectSeq(SplitOn(s, " "), LAMBDA w : w # "")

\* set(list)
Range(seq) == {seq[i] : i \in 1..Len(seq)}

\* pattern LIKE-matches s from its first character to its last: % matches any
\* run of characters and _ any single character
RECURSIVE LikeMatch(_, _)
LikeMatch(p, s) ==
    IF p = "" THEN s = ""
    ELSE IF CharAt(p, 1) = "%"
         THEN \E k \in 0..Len(s) : LikeMatch(SubSeq(p, 2, Len(p)), SubSeq(s, k + 1, Len(s)))
         ELSE /\ s # ""
              /\ (CharAt(p, 1) = "_" \/ CharAt(p, 1) = CharAt(s, 1))
              /\ LikeMatch(SubSeq(p, 2, Len(p)), SubSeq(s, 2, Len(s)))

\* text occurs in s, a _ of text standing for any one character
ContainsLike(text, s) ==
    \E i \in 0..(Len(s) - Len(text)) :
        \A j \in 1..Len(text) :
            CharAt(text, j) = "_" \/ CharAt(text, j) = CharAt(s, i + j)

\* column.ilike("%" + text + "%"): SQL LIKE on the lower-cased operands
ILikeContains(column, text) ==
    IF Contains("%", text)
    THEN LikeMatch("%" \o Lower(text) \o "%", Lower(column))
    ELSE IF Contains("_", text)
    THEN ContainsLike(Lower(text), Lower(column))
    ELSE Contains(Lower(text), Lower(column))

-----------------------------------------------------------------------------
(* _check_pre_requisites *)

\* ', '.join(list)
RECURSIVE JoinComma(_)
JoinComma(seq) ==
    IF seq = <<>> THEN ""
    ELSE IF Len(seq) = 1 THEN seq[1]
    ELSE seq[1] \o ", " \o JoinComma(Tail(seq))

\* [str(t).lower() for t in list]
LowerEach(seq) == [i \in 1..Len(seq) |-> Lower(seq[i])]

\* str(user_context).lower(): the dict's printed form, key by key, each value
\* in lower case
ContextStrLower(ctx) ==
    "{'user_id': '" \o Lower(ctx.user_id) \o "', 'department': '" \o Lower(ctx.department)
    \o "', 'role': '" \o Lower(ctx.role) \o "', 'current_permissions': {"
    \o JoinComma(LowerEach(ctx.current_permissions))
    \o "}, 'context_data': {'employee_type': '"
    \o Lower(ctx.context_data.employee_type) \o "', 'security_clearance_level': "
    \o ToString(ctx.context_data.security_clearance_level)
    \o ", 'completed_trainings': [" \o JoinComma(LowerEach(ctx.context_data.completed_trainings))
    \o "]}}"

\* [t for t in context_data.get("completed_trainings", []) if t]
NonEmptyTrainings(ctx) ==
    SelectSeq(ctx.context_data.completed_trainings, LAMBDA t : t # "")

\* PrereqBranch with the approval test ahead of the department test
PrereqBranch_ApprovalFirst(prereq_lower) ==
    IF Contains("valid employee id", prereq_lower) \/ Contains("employee id", prereq_lower)
        THEN "employee_id"
    ELSE IF Contains("manager approval", prereq_lower) \/ Contains("approval", prereq_lower)
        THEN "approval"
    ELSE IF Contains("department", prereq_lower) THEN "department"
    ELSE IF Contains("security", prereq_lower) /\ Contains("clearance", prereq_lower)
        THEN "clearance"
    ELSE IF Contains("training", prereq_lower) THEN "training"
    ELSE IF Contains("role", prereq_lower) THEN "role"
    ELSE "generic"

\* the if / elif chain of the loop body: the branch a phrase takes
PrereqBranch(prereq_lower) ==
    IF Contains("valid employee id", prereq_lower) \/ Contains("employee id", prereq_lower)
        THEN "employee_id"
    ELSE IF Contains("department", prereq_lower) THEN "department"
    ELSE IF Contains("manager approval", prereq_lower) \/ Contains("approval", prereq_lower)
        THEN "approval"
    ELSE IF Contains("security", prereq_lower) /\ Contains("clearance", prereq_lower)
        THEN "clearance"
    ELSE IF Contains("training", prereq_lower) THEN "training"
    ELSE IF Contains("role", prereq_lower) THEN "role"
    ELSE "generic"

\* prereq_lower.replace("training", "")
RECURSIVE RemoveAll(_, _)
RemoveAll(s, sub) ==
    IF Len(s) < Len(sub) THEN s
    ELSE IF SubSeq(s, 1, Len(sub)) = sub THEN RemoveAll(SubSeq(s, Len(sub) + 1, Len(s)), sub)
    ELSE CharAt(s, 1) \o RemoveAll(SubSeq(s, 2, Len(s)), sub)

\* one pass of the loop body: the {"met", "details"} entry of a phrase
CheckOnePrerequisite(prereq, ctx) ==
    LET prereq_lower == Lower(prereq)
        branch == PrereqBranch(prereq_lower)
        completed_trainings == NonEmptyTrainings(ctx)
        training_type == Strip(RemoveAll(prereq_lower, "training"))
        clearance_level == ctx.context_data.security_clearance_level
        met == CASE branch = "employee_id" -> ctx.user_id # ""
                 [] branch = "department" -> ctx.department # ""
                 [] branch = "approval" -> FALSE
                 [] branch = "clearance" -> clearance_level >= 2
                 [] branch = "training" ->
                        IF training_type # "" /\ completed_trainings # <<>>
                        THEN \E i \in 1..Len(completed_trainings) :
                                 Contains(training_type, Lower(completed_trainings[i]))
                        ELSE Len(completed_trainings) > 0
                 [] branch = "role" -> ctx.role # ""
                 [] OTHER -> Contains(prereq_lower, ContextStrLower(ctx))
        details == CASE branch = "employee_id" ->
                            IF met THEN "User ID present" ELSE "User ID missing"
                     [] branch = "department" ->
                            IF met THEN "Department: " \o ctx.department
                            ELSE "Department not set"
                     [] branch = "approval" -> "Requires manager approval"
                     [] branch = "clearance" ->
                            "Security clearance level: " \o ToString(clearance_level)
                     [] branch = "training" ->
                            IF met THEN "Trainings: " \o JoinComma(completed_trainings)
                            ELSE "Training not completed"
                     [] branch = "role" ->
                            IF met THEN "Role: " \o ctx.role ELSE "Role not set"
                     [] OTHER -> IF met THEN "Found in context" ELSE "Not found in context"
    IN  [met |-> met, details |-> details]

\* _check_pre_requisites: the status dict, keyed by the phrases that are not empty
CheckPreRequisites(pre_requisites, ctx) ==
    [prereq \in {p \in Range(pre_requisites) : p # ""} |->
        CheckOnePrerequisite(prereq, ctx)]

-----------------------------------------------------------------------------
(* _calculate_priority_score *)

\* sum(1 for status in pre_requisites_status.values() if status["met"])
MetCount(status) == Cardinality({p \in DOMAIN status : status[p].met})

\* PriorityBonus with a deduction for the low level
PriorityBonus_LowIsPenalty(priority_level) ==
    LET level == IF priority_level # "" THEN Lower(priority_level) ELSE "medium"
    IN  CASE level = "high" -> 20
          [] level = "medium" -> 10
          [] level = "low" -> 0 - 20
          [] OTHER -> 0

\* priority_bonus.get(priority_level, 0), after the default for an unset level
\* PriorityBonus with an unset level counted as low
PriorityBonus_UnsetIsLow(priority_level) ==
    IF Lower(priority_level) = "high" THEN 20
    ELSE IF Lower(priority_level) = "medium" THEN 10
    ELSE 0

PriorityBonus(priority_level) ==
    LET level == IF priority_level # "" THEN Lower(priority_level) ELSE "medium"
    IN  CASE level = "high" -> 20
          [] level = "medium" -> 10
          [] level = "low" -> 0
          [] OTHER -> 0

\* round(n / d, 2) of a non-negative quotient given in hundredths: the nearest
\* integer to n / d (no quotient of the model falls on a half)
RoundDiv(n, d) == (2 * n + d) \div (2 * d)

\* CalculatePriorityScore without the clamp to 0..100
CalculatePriorityScore_NoClamp(r, ctx, status) ==
    LET total_prereqs == Cardinality(DOMAIN status)
        d == IF total_prereqs > 0 THEN total_prereqs ELSE 1
    IN  RoundDiv(5000 * d + 3000 * MetCount(status)
                 + 100 * d * PriorityBonus(r.priority_level)
                 + (IF ctx.current_permissions # <<>> THEN 1000 * d ELSE 0)
                 + (IF r.auto_grant_enabled THEN 1000 * d ELSE 0), d)

\* the score in hundredths.  The arithmetic is done on the common denominator
\* total_prereqs, so that met / total * 30 loses nothing before the rounding.
CalculatePriorityScore(r, ctx, status) ==
    LET total_prereqs == Cardinality(DOMAIN status)
        met_prereqs == MetCount(status)
        d == IF total_prereqs > 0 THEN total_prereqs ELSE 1
        base == 5000 * d
        with_prereqs == IF total_prereqs > 0 THEN base + 3000 * met_prereqs ELSE base
        with_priority == with_prereqs + 100 * d * PriorityBonus(r.priority_level)
        with_history == IF ctx.current_permissions # <<>>
                        THEN with_priority + 1000 * d ELSE with_priority
        with_auto == IF r.auto_grant_enabled THEN with_history + 1000 * d ELSE with_history
        low == IF with_auto > 10000 * d THEN 10000 * d ELSE with_auto
        clamped == IF low < 0 THEN 0 ELSE low
    IN  RoundDiv(clamped, d)


-----------------------------------------------------------------------------
(* _extract_master_tracker_row_context *)

\* a cell that holds no usable text: NaN, or the words the loader leaves for it
IsBlankValue(v) == Len(v) <= 4 /\ Lower(v) \in {"nan", "none", ""}

\* request_words = [w for w in requested_lower.split() if len(w) > 3]
RequestWords(requested_lower) ==
    SelectSeq(Split(requested_lower), LAMBDA w : Len(w) > 3)

\* the row_data dict built from one sheet row (a NaN cell is "")
RowData(row, idx, requested_lower, request_words) ==
    LET role_value == Strip(row.role)
        app_value == Strip(row.application)
        role_lower == Lower(role_value)
        app_lower == Lower(app_value)
        role_words == Split(role_lower)
        role_hit ==
            /\ row.role # ""
            /\ \/ \E i \in 1..Len(request_words) : Contains(request_words[i], role_lower)
               \/ \E i \in 1..Len(role_words) : Contains(role_words[i], requested_lower)
        app_hit ==
            /\ row.application # ""
            /\ \E i \in 1..Len(request_words) : Contains(request_words[i], app_lower)
        optional(cell) == IF IsBlankValue(Strip(cell)) THEN "" ELSE Strip(cell)
    IN  [role |-> role_value,
         application |-> app_value,
         training_required |-> optional(row.training_required),
         exception_scenario |-> optional(row.exception_scenario),
         row_index |-> idx,
         match_score |-> (IF role_hit THEN 3 ELSE 0) + (IF app_hit THEN 2 ELSE 0)]

\* list.sort(key=match_score, reverse=True): stable, highest score first
RECURSIVE SortByMatchScore(_, _)
SortByMatchScore(rows, score) ==
    IF score < 0 THEN <<>>
    ELSE SelectSeq(rows, LAMBDA r : r.match_score = score)
         \o SortByMatchScore(rows, score - 1)

\* ExtractMasterTrackerRowContext keeping only the rows with a positive score
ExtractMasterTrackerRowContext_PositiveOnly(permission, tracker) ==
    LET requested_lower == Lower(permission)
        request_words == RequestWords(requested_lower)
        all == [i \in 1..Len(tracker) |->
                   RowData(tracker[i], i, requested_lower, request_words)]
        kept == SelectSeq(all, LAMBDA r : r.match_score > 0)
    IN  SortByMatchScore(kept, 5)

\* matching_rows_data; an absent or unreadable sheet is the empty tracker
ExtractMasterTrackerRowContext(permission, tracker) ==
    LET requested_lower == Lower(permission)
        request_words == RequestWords(requested_lower)
        all == [i \in 1..Len(tracker) |->
                   RowData(tracker[i], i, requested_lower, request_words)]
        kept == SelectSeq(all, LAMBDA r : r.match_score > 0 \/ r.role # "")
    IN  SortByMatchScore(kept, 5)

-----------------------------------------------------------------------------
(* _validate_row_against_user_context *)

\* the words of a training name that count: longer than 3 characters and not
\* one of the generic terms
TrainingWords(training_lower) ==
    {w \in Range(Split(training_lower)) :
        Len(w) > 3 /\ w \notin {"training", "course", "certification"}}

\* TrainingSatisfies with one shared word taken for a match
TrainingSatisfies_OneSharedWord(required_training_lower, user_training_lower) ==
    \/ required_training_lower = user_training_lower
    \/ Contains(required_training_lower, user_training_lower)
    \/ Contains(user_training_lower, required_training_lower)
    \/ TrainingWords(required_training_lower) \cap TrainingWords(user_training_lower) # {}

\* TrainingSatisfies without the rule that every required word is present
TrainingSatisfies_NoSubset(required_training_lower, user_training_lower) ==
    \/ required_training_lower = user_training_lower
    \/ Contains(required_training_lower, user_training_lower)
    \/ Contains(user_training_lower, required_training_lower)
    \/ Cardinality(TrainingWords(required_training_lower)
                   \cap TrainingWords(user_training_lower)) >= 2

\* the body of the loop over the user's trainings: does this one satisfy the
\* requirement
TrainingSatisfies(required_training_lower, user_training_lower) ==
    LET required_words == TrainingWords(required_training_lower)
        user_words == TrainingWords(user_training_lower)
    IN  \/ required_training_lower = user_training_lower
        \/ Contains(required_training_lower, user_training_lower)
        \/ Contains(user_training_lower, required_training_lower)
        \/ /\ required_words # {}
           /\ user_words # {}
           /\ \/ Cardinality(required_words \cap user_words) >= 2
              \/ required_words \subseteq user_words

\* IsValidAfter with a role mismatch counted as a failure
IsValidAfter_RoleIsHard(training_failed, exception_violated, role_mismatch) ==
    ~training_failed /\ ~exception_violated /\ ~role_mismatch

\* validation_result['is_valid'] at the return: set to False by the training
\* rule (lines 418, 452) and by the exception triggers (lines 469-495), left
\* alone by the role rule (lines 503-512)
IsValidAfter(training_failed, exception_violated, role_mismatch) ==
    ~training_failed /\ ~exception_violated

\* the words of a role that count in the role comparison
RoleWords(role_lower) == {w \in Range(Split(role_lower)) : Len(w) > 3}

ValidateRowAgainstUserContext(row_data, ctx) ==
    LET given == NonEmptyTrainings(ctx)
        completed_trainings == [i \in 1..Len(given) |-> Lower(given[i])]
        user_department == Lower(ctx.department)
        employee_type ==
            Lower(IF ctx.context_data.employee_type # ""
                  THEN ctx.context_data.employee_type ELSE "Full-time")
        user_role == Lower(ctx.role)
        \* 1. training
        required_training == Strip(row_data.training_required)
        training_checked == ~IsBlankValue(required_training)
        required_training_lower == Lower(required_training)
        training_match ==
            /\ training_checked
            /\ \E i \in 1..Len(completed_trainings) :
                   TrainingSatisfies(required_training_lower, Lower(completed_trainings[i]))
        training_issues ==
            IF training_checked /\ ~training_match
            THEN IF completed_trainings = <<>>
                 THEN <<"REQUIRED TRAINING NOT COMPLETED: Role requires '"
                        \o required_training \o "' but user has completed NO TRAININGS.">>
                 ELSE <<"REQUIRED TRAINING MISMATCH: Role requires '" \o required_training
                        \o "' but user has completed: "
                        \o JoinComma(ctx.context_data.completed_trainings) \o ".">>
            ELSE <<>>
        \* 2. exception scenario
        exception_scenario == Strip(row_data.exception_scenario)
        exception_checked == ~IsBlankValue(exception_scenario)
        exception_lower == Lower(exception_scenario)
        contractor_hit ==
            /\ exception_checked
            /\ Contains("contractor", exception_lower)
            /\ (Contains("contractor", employee_type) \/ Contains("external", employee_type))
        intern_hit ==
            /\ exception_checked
            /\ Contains("intern", exception_lower)
            /\ Contains("intern", employee_type)
        external_hit ==
            /\ exception_checked
            /\ Contains("external", exception_lower)
            /\ (Contains("external", employee_type) \/ Contains("contractor", employee_type))
        department_hit ==
            /\ exception_checked
            /\ Contains("non finance", exception_lower)
            /\ ~Contains("finance", user_department)
        exception_issue(who) ==
            "EXCEPTION VIOLATION: " \o row_data.exception_scenario \o " - " \o who
        exception_issues ==
            (IF contractor_hit
             THEN <<exception_issue("User is a " \o ctx.context_data.employee_type)>>
             ELSE <<>>)
            \o (IF intern_hit
                THEN <<exception_issue("User is an " \o ctx.context_data.employee_type)>>
                ELSE <<>>)
            \o (IF external_hit
                THEN <<exception_issue("User is " \o ctx.context_data.employee_type)>>
                ELSE <<>>)
            \o (IF department_hit
                THEN <<exception_issue("User department is " \o ctx.department)>>
                ELSE <<>>)
        \* 3. role (an issue only)
        required_role ==
            IF IsBlankValue(row_data.role) THEN "" ELSE Lower(Strip(row_data.role))
        role_mismatch ==
            /\ required_role # ""
            /\ user_role # ""
            /\ ~Contains(required_role, user_role)
            /\ ~Contains(user_role, required_role)
            /\ RoleWords(required_role) \cap RoleWords(user_role) = {}
        role_issues ==
            IF role_mismatch
            THEN <<"ROLE MISMATCH: Required role is '" \o row_data.role
                   \o "' but user role is '" \o ctx.role \o "'">>
            ELSE <<>>
        exception_violated == contractor_hit \/ intern_hit \/ external_hit \/ department_hit
        training_failed == training_checked /\ ~training_match
    IN  [is_valid |-> IsValidAfter(training_failed, exception_violated, role_mismatch),
         validation_issues |-> training_issues \o exception_issues \o role_issues,
         training_match |-> training_match,
         exception_violated |-> exception_violated,
         all_fields_match |-> ~training_failed]


-----------------------------------------------------------------------------
(* _check_master_tracker_validation *)

\* no contextual understanding (None).  application_is_text tells whether the
\* value under extracted_application is a string (the service may answer any
\* JSON value, a list of names for instance)
NoUnderstanding ==
    [present |-> FALSE, extracted_role |-> "", extracted_application |-> "",
     application_is_text |-> TRUE]

\* enhanced_permission: the permission the rows are extracted with
EnhancedPermission(permission, understanding) ==
    IF /\ understanding.present
       /\ understanding.extracted_role # ""
       /\ understanding.extracted_application # ""
    THEN IF ~Contains(Lower(understanding.extracted_application), Lower(permission))
         THEN understanding.extracted_application \o " - "
              \o understanding.extracted_role \o " - " \o permission
         ELSE IF ~Contains(Lower(understanding.extracted_role), Lower(permission))
              THEN permission \o " - " \o understanding.extracted_role
              ELSE permission
    ELSE permission

\* requested_parts = [p.strip() for p in str(requested_permission).split('-')]
RequestedParts(permission) ==
    LET parts == SplitOn(permission, "-")
    IN  IF permission = "" THEN <<>> ELSE [i \in 1..Len(parts) |-> Strip(parts[i])]

RequestedApp(permission) ==
    LET requested_parts == RequestedParts(permission)
    IN  IF Len(requested_parts) > 0 THEN Lower(requested_parts[1]) ELSE ""

RequestedRoleFromPermission(permission) ==
    LET requested_parts == RequestedParts(permission)
    IN  IF Len(requested_parts) > 1 THEN Lower(requested_parts[2]) ELSE ""

\* target_role: the user's role when the context has one, else the parsed one
TargetRole(permission, ctx) ==
    IF Lower(Strip(ctx.role)) # "" THEN Lower(Strip(ctx.role))
    ELSE RequestedRoleFromPermission(permission)

\* what the selection loop computes for one candidate row
RowMatch(row_data, target_role, requested_app) ==
    LET row_role == Strip(Lower(row_data.role))
        row_app == Strip(Lower(row_data.application))
        role_exact_match == target_role = row_role
        role_partial_match ==
            IF target_role # "" /\ row_role # ""
            THEN Contains(target_role, row_role) \/ Contains(row_role, target_role)
            ELSE FALSE
        app_exact_match == requested_app = row_app
        app_partial_match ==
            IF requested_app # "" /\ row_app # ""
            THEN Contains(requested_app, row_app) \/ Contains(row_app, requested_app)
            ELSE FALSE
    IN  [role_matches |-> role_exact_match \/ role_partial_match,
         app_matches |-> IF requested_app # ""
                         THEN app_exact_match \/ app_partial_match ELSE TRUE,
         combined_score |->
             row_data.match_score
             + (IF role_exact_match THEN 10 ELSE IF role_partial_match THEN 5 ELSE 0)
             + (IF app_exact_match THEN 10 ELSE IF app_partial_match THEN 5 ELSE 0)]

\* the selection loop from candidate i on; best is the position in rows of
\* best_matching_row (0 for None) and best_score is best_match_score
RECURSIVE SelectLoop(_, _, _, _, _, _)
SelectLoop(rows, i, best, best_score, target_role, requested_app) ==
    IF i > Len(rows) THEN best
    ELSE LET m == RowMatch(rows[i], target_role, requested_app)
         IN  IF m.role_matches /\ m.app_matches /\ m.combined_score > best_score
             THEN SelectLoop(rows, i + 1, i, m.combined_score, target_role, requested_app)
             ELSE IF best = 0 /\ m.role_matches /\ m.combined_score > best_score
             THEN SelectLoop(rows, i + 1, i, m.combined_score, target_role, requested_app)
             ELSE SelectLoop(rows, i + 1, best, best_score, target_role, requested_app)

\* position in rows of best_matching_row, with the fallback to the first row;
\* 0 when there are no rows
BestMatchingRow(rows, permission, ctx) ==
    LET target_role == TargetRole(permission, ctx)
        requested_app == RequestedApp(permission)
        found == SelectLoop(rows, 1, 0, -1, target_role, requested_app)
    IN  IF found = 0 /\ rows # <<>> THEN 1 ELSE found

\* a row_data that stands for "no row"
NoRow ==
    [role |-> "", application |-> "", training_required |-> "",
     exception_scenario |-> "", row_index |-> 0, match_score |-> 0]

NoValidation ==
    [is_valid |-> TRUE, validation_issues |-> <<>>, training_match |-> FALSE,
     exception_violated |-> FALSE, all_fields_match |-> TRUE]

\* a (decision, reasoning, confidence) tuple that stands for None
NoDecision == [present |-> FALSE, decision |-> "", reasoning |-> "", confidence |-> 0]

\* CriticalRejectionReasons without the exception reason
CriticalRejectionReasons_TrainingOnly(row_data, v, ctx) ==
    LET required_training == Strip(row_data.training_required)
    IN  IF ~IsBlankValue(required_training) /\ ~v.training_match
        THEN <<"Required training '" \o required_training \o "' has not been completed.">>
        ELSE <<>>

\* critical_rejection_reasons for the validated row
CriticalRejectionReasons(row_data, v, ctx) ==
    LET required_training == Strip(row_data.training_required)
        completed_trainings == ctx.context_data.completed_trainings
    IN  (IF ~IsBlankValue(required_training) /\ ~v.training_match
         THEN <<"Required training '" \o required_training
                \o "' has not been completed. User has completed: "
                \o (IF completed_trainings # <<>> THEN JoinComma(completed_trainings)
                    ELSE "no trainings")
                \o ". Access cannot be granted without the required training.">>
         ELSE <<>>)
        \o (IF v.exception_violated
            THEN <<"EXCEPTION VIOLATION: " \o row_data.exception_scenario>>
            ELSE <<>>)

\* ValidationRejection with the confidence of an ordinary grant and a reasoning
\* that names no field
ValidationRejection_Unspecific(reasons) ==
    IF reasons # <<>>
    THEN [present |-> TRUE, decision |-> "reject",
          reasoning |-> "Master tracker validation failed", confidence |-> 85]
    ELSE NoDecision

\* lines 751-758: the tuple returned for the reasons collected, the first
\* reason only; None when there is none
ValidationRejection(reasons) ==
    IF reasons # <<>>
    THEN [present |-> TRUE, decision |-> "reject", reasoning |-> reasons[1],
          confidence |-> 95]
    ELSE NoDecision

\* CheckMasterTrackerValidation validating every matching row, not only the
\* selected one
CheckMasterTrackerValidation_AllRows(permission, ctx, tracker) ==
    LET understanding == ctx.context_data.contextual_understanding
        matching_rows_data ==
            ExtractMasterTrackerRowContext(EnhancedPermission(permission, understanding),
                                           tracker)
        best == BestMatchingRow(matching_rows_data, permission, ctx)
        best_matching_row == IF best = 0 THEN NoRow ELSE matching_rows_data[best]
        v == IF best = 0 THEN NoValidation
             ELSE ValidateRowAgainstUserContext(best_matching_row, ctx)
        ReasonsOf(i) ==
            CriticalRejectionReasons(
                matching_rows_data[i],
                ValidateRowAgainstUserContext(matching_rows_data[i], ctx), ctx)
        failing == {i \in 1..Len(matching_rows_data) : ReasonsOf(i) # <<>>}
        reasons == IF failing = {} THEN <<>>
                   ELSE ReasonsOf(CHOOSE i \in failing : \A j \in failing : i <= j)
    IN  [ran |-> TRUE,
         matching_rows_data |-> matching_rows_data,
         best_matching_row |-> best_matching_row,
         validation |-> v,
         rejection |-> ValidationRejection(reasons)]

\* the whole method: the row selected, its validation and the rejection tuple
\* (rejection.present is FALSE where the method returns None)
CheckMasterTrackerValidation(permission, ctx, tracker) ==
    LET understanding == ctx.context_data.contextual_understanding
        matching_rows_data ==
            ExtractMasterTrackerRowContext(EnhancedPermission(permission, understanding),
                                           tracker)
        best == BestMatchingRow(matching_rows_data, permission, ctx)
        best_matching_row == IF best = 0 THEN NoRow ELSE matching_rows_data[best]
        v == IF best = 0 THEN NoValidation
             ELSE ValidateRowAgainstUserContext(best_matching_row, ctx)
        reasons == IF best = 0 THEN <<>>
                   ELSE CriticalRejectionReasons(best_matching_row, v, ctx)
    IN  [ran |-> TRUE,
         matching_rows_data |-> matching_rows_data,
         best_matching_row |-> best_matching_row,
         validation |-> v,
         rejection |-> ValidationRejection(reasons)]


-----------------------------------------------------------------------------
(* _find_permission_rule *)

\* query.first(): the first position of the catalog among the hits, 0 for None
FirstRule(hits) ==
    IF hits = {} THEN 0 ELSE CHOOSE i \in hits : \A j \in hits : i <= j

\* the rule's position in the catalog (its id), 0 for None
FindPermissionRule(catalog, permission_name, type) ==
    LET by_name == FirstRule({i \in 1..Len(catalog) :
                       ILikeContains(catalog[i].permission_name, permission_name)})
        by_type == FirstRule({i \in 1..Len(catalog) :
                       ILikeContains(catalog[i].permission_type, type)})
    IN  IF by_name # 0 THEN by_name ELSE by_type

\* TemporaryRule as an auto-grant rule
TemporaryRule_AutoGrant(permission_name, type) ==
    [id |-> 0, permission_type |-> type, permission_name |-> permission_name,
     pre_requisites |-> <<>>, priority_level |-> "medium", auto_grant_enabled |-> TRUE]

\* the temporary rule evaluate_request builds when no rule is found (id None)
TemporaryRule(permission_name, type) ==
    [id |-> 0, permission_type |-> type, permission_name |-> permission_name,
     pre_requisites |-> <<>>, priority_level |-> "medium", auto_grant_enabled |-> FALSE]

-----------------------------------------------------------------------------
(* _make_rule_based_decision and _make_ai_decision *)

AUTO_GRANT_THRESHOLD == 80
REQUIRE_APPROVAL_THRESHOLD == 50

\* sum(1 for r in similar_requests if r.get("auto_granted"))
AutoGrantedCount(similar) == Cardinality({i \in 1..Len(similar) : similar[i]})

\* RuleBasedDecision granting only when more than 80% of the prerequisites are met
RuleBasedDecision_Above80(r, score, status, similar) ==
    LET high == score >= 100 * AUTO_GRANT_THRESHOLD /\ r.auto_grant_enabled
        most == 10 * MetCount(status) > 8 * Cardinality(DOMAIN status)
        historical == similar # <<>> /\ 10 * AutoGrantedCount(similar) > 7 * Len(similar)
    IN  [decision |-> IF high /\ most THEN "grant" ELSE "create_ticket",
         confidence |-> IF high THEN (IF most THEN (IF historical THEN 95 ELSE 85) ELSE 70)
                        ELSE IF score >= 100 * REQUIRE_APPROVAL_THRESHOLD THEN 75
                        ELSE 80,
         reasoning |-> ""]

\* RuleBasedDecision granting on the score alone, whatever the prerequisites met
RuleBasedDecision_GrantsOnScore(r, score, status, similar) ==
    LET high == score >= 100 * AUTO_GRANT_THRESHOLD /\ r.auto_grant_enabled
        historical == similar # <<>> /\ 10 * AutoGrantedCount(similar) > 7 * Len(similar)
    IN  [decision |-> IF high THEN "grant" ELSE "create_ticket",
         confidence |-> IF high THEN (IF historical THEN 95 ELSE 85)
                        ELSE IF score >= 100 * REQUIRE_APPROVAL_THRESHOLD THEN 75
                        ELSE 80,
         reasoning |-> ""]

\* the decision, the confidence (hundredths) and base_reasoning of the threshold
\* policy; every comparison is done on integers (x >= t * 0.8 is 10 x >= 8 t)
RuleBasedDecision(r, score, status, similar) ==
    LET prereq_met_count == MetCount(status)
        prereq_total == Cardinality(DOMAIN status)
        high == score >= 100 * AUTO_GRANT_THRESHOLD /\ r.auto_grant_enabled
        decision ==
            IF high /\ 10 * prereq_met_count >= 8 * prereq_total THEN "grant"
            ELSE "create_ticket"
        confidence ==
            IF high THEN (IF 10 * prereq_met_count >= 8 * prereq_total THEN 85 ELSE 70)
            ELSE IF score >= 100 * REQUIRE_APPROVAL_THRESHOLD THEN 75
            ELSE 80
        part ==
            IF high
            THEN (IF 10 * prereq_met_count >= 8 * prereq_total
                  THEN "High priority score and most pre-requisites met"
                  ELSE "High priority but missing pre-requisites")
            ELSE IF score >= 100 * REQUIRE_APPROVAL_THRESHOLD
            THEN "Moderate priority requires review"
            ELSE "Low priority score requires manual review"
        historical ==
            /\ similar # <<>>
            /\ 10 * AutoGrantedCount(similar) > 7 * Len(similar)
        adjusted == IF historical /\ decision = "grant" THEN confidence + 10 ELSE confidence
    IN  [decision |-> decision,
         confidence |-> IF adjusted > 100 THEN 100 ELSE adjusted,
         reasoning |-> IF historical
                       THEN part \o ". Similar requests historically auto-granted"
                       ELSE part]

\* a confidence value of the service's JSON answer
AbsentConfidence == [kind |-> "absent", value |-> 0]
NumberConfidence(v) == [kind |-> "number", value |-> v]
TextConfidence == [kind |-> "text", value |-> 0]

\* the "decision" key is not in the answer
AbsentKey == "<absent>"

\* what the code after the service call makes of a parsed answer: the returned
\* tuple, or failed when a statement raises (float() of a text that is no number,
\* ', '.join of a missing_info that holds no strings)
AiDecisionFromAnswer(answer) ==
    LET decision == IF answer.decision = AbsentKey THEN "create_ticket" ELSE answer.decision
        reasoning == "AI decision made"
        confidence == IF answer.confidence.kind = "absent" THEN 70
                      ELSE answer.confidence.value
        raised == \/ answer.confidence.kind = "text"
                  \/ decision = "ask_for_more_info" /\ answer.missing_info = "not_strings"
        low == IF confidence < 0 THEN 0 ELSE confidence
    IN  [failed |-> raised,
         decision |-> decision,
         reasoning |-> IF decision = "ask_for_more_info"
                       THEN reasoning \o "\n\nMissing Information Required: "
                       ELSE reasoning,
         confidence |-> IF low > 100 THEN 100 ELSE low]


-----------------------------------------------------------------------------
(* The data an evaluation runs on *)

\* the ways to pick k trainings of TrainingNames, in its order
IncreasingPicks(k) ==
    {g \in [1..k -> 1..Len(TrainingNames)] : \A i, j \in 1..k : i < j => g[i] < g[j]}

\* the lists of at most n different trainings
TrainingLists(n) ==
    UNION {{[i \in 1..k |-> TrainingNames[g[i]]] : g \in IncreasingPicks(k)} : k \in 0..n}

\* the user contexts get_user_context can return
UserContexts ==
    [user_id : {"EMP001"},
     department : Departments,
     role : Roles,
     current_permissions : {<<>>, <<"Email">>},
     context_data : [employee_type : EmployeeTypes,
                     security_clearance_level : {1, 2},
                     completed_trainings : TrainingLists(MaxTrainings),
                     contextual_understanding : {NoUnderstanding}]]

\* similar_requests: the auto_granted flags of the records found, the granted
\* first.  No record, or MaxSimilar records of which none, all, the largest number
\* that is at most 70% or the smallest number above 70% were auto-granted.
SimilarHistories ==
    {<<>>}
    \cup {[i \in 1..MaxSimilar |-> i <= k] :
             k \in {0, (7 * MaxSimilar) \div 10, (7 * MaxSimilar) \div 10 + 1, MaxSimilar}}

\* what _understand_request_context returns when the client is set: None (the
\* call or the parsing failed), or the parsed answer
UnderstandingAnswers ==
    {NoUnderstanding}
    \cup [present : {TRUE}, extracted_role : {"Developer"},
          extracted_application : {"", "Salesforce"}, application_is_text : {TRUE}]
    \cup {[present |-> TRUE, extracted_role |-> "Developer",
           extracted_application |-> "Salesforce", application_is_text |-> FALSE]}

\* answers of the reasoning service to the decision prompt
AiAnswers ==
    {[kind |-> k, decision |-> AbsentKey, confidence |-> AbsentConfidence,
      missing_info |-> "absent"] : k \in {"raises", "unparseable", "json"}}
    \cup {[kind |-> "json", decision |-> "grant", confidence |-> NumberConfidence(90),
           missing_info |-> "absent"],
          [kind |-> "json", decision |-> "approve", confidence |-> NumberConfidence(150),
           missing_info |-> "absent"],
          [kind |-> "json", decision |-> "reject", confidence |-> NumberConfidence(-50),
           missing_info |-> "absent"],
          [kind |-> "json", decision |-> "create_ticket", confidence |-> TextConfidence,
           missing_info |-> "absent"]}
    \cup [kind : {"json"}, decision : {"ask_for_more_info"},
          confidence : {NumberConfidence(60)}, missing_info : {"strings", "not_strings"}]

NoAnswer ==
    [kind |-> "none", decision |-> AbsentKey, confidence |-> AbsentConfidence,
     missing_info |-> "absent"]

NoRule == TemporaryRule("", "")

NoResult == [decision |-> "", priority_score |-> 0, reasoning |-> "", confidence |-> 0,
             rule_id |-> 0, similar_requests_count |-> 0]

\* _create_ticket has not run
NoTicketing == [client |-> FALSE, lookup |-> "none", answer |-> "none", timestamp |-> ""]

\* _execute_decision has not run
NoExecution == [status |-> "", auto_granted |-> FALSE, has_ticket_id |-> FALSE,
                ticket_id |-> "", message |-> ""]

\* the store before any request was recorded
NoStore == [requests |-> <<>>, audit |-> <<>>]

\* no concurrent evaluation runs
NoShared == [catalog |-> <<>>, rows |-> <<>>, users |-> <<>>]

NotValidated ==
    [ran |-> FALSE, matching_rows_data |-> <<>>, best_matching_row |-> NoRow,
     validation |-> NoValidation, rejection |-> NoDecision]

-----------------------------------------------------------------------------
(* evaluate_request, step by step *)

Init ==
    /\ pc = "start"
    /\ \E req \in Requests : request_type = req[1] /\ requested_permission = req[2]
    /\ user_context \in UserContexts
    /\ ai_client \in BOOLEAN
    /\ use_ai_reasoning \in BOOLEAN
    /\ master_tracker = <<>>
    /\ rule = NoRule
    /\ pre_requisites_status = <<>>
    /\ priority_score = 0
    /\ similar_requests = <<>>
    /\ validation = NotValidated
    /\ ai_response = NoAnswer
    /\ result = NoResult
    /\ calls = <<>>
    /\ request_id = 0
    /\ ticketing = NoTicketing
    /\ execution = NoExecution
    /\ store = NoStore
    /\ requests_submitted = 0
    /\ evaluations = <<>>
    /\ shared = NoShared

\* lines 36-56: the user context is read, _understand_request_context asks the
\* reasoning service when a client is set, and its answer is folded into the
\* user context and the requested permission.  Line 50 calls .lower() on the
\* extracted application outside any try: a value that is no string raises
\* AttributeError out of evaluate_request (pc "raised"), after line 47 has
\* stored the role and before line 56 stores the understanding.
UnderstandRequestContext ==
    /\ pc = "start"
    /\ \E answer \in (IF ai_client THEN UnderstandingAnswers ELSE {NoUnderstanding}) :
          LET new_role ==
                  IF answer.present /\ answer.extracted_role # "" /\ user_context.role = ""
                  THEN answer.extracted_role ELSE user_context.role
              lowered == /\ answer.present
                         /\ answer.extracted_application # ""
                         /\ requested_permission # ""
              new_permission ==
                  IF lowered /\ ~Contains(Lower(answer.extracted_application),
                                          Lower(requested_permission))
                  THEN answer.extracted_application \o " - " \o requested_permission
                  ELSE requested_permission
          IN  IF lowered /\ ~answer.application_is_text
              THEN /\ user_context' = [user_context EXCEPT !.role = new_role]
                   /\ requested_permission' = requested_permission
                   /\ pc' = "raised"
              ELSE /\ user_context' =
                          [user_context EXCEPT !.role = new_role,
                                               !.context_data.contextual_understanding = answer]
                   /\ requested_permission' = new_permission
                   /\ pc' = "find_rule"
    /\ calls' = IF ai_client THEN Append(calls, "ai_understand") ELSE calls
    /\ UNCHANGED <<request_type, ai_client, use_ai_reasoning, master_tracker, rule,
                   pre_requisites_status, priority_score, similar_requests, validation,
                   ai_response, result>>
    /\ UNCHANGED <<process_vars, concurrent_vars>>

\* lines 58-71: the rule is looked up, or the temporary rule is built
FindRule ==
    /\ pc = "find_rule"
    /\ LET found == FindPermissionRule(RuleCatalog, requested_permission, request_type)
       IN  rule' = IF found # 0 THEN RuleCatalog[found]
                   ELSE TemporaryRule(requested_permission, request_type)
    /\ pc' = "check_prereqs"
    /\ UNCHANGED <<request_type, requested_permission, user_context, ai_client,
                   use_ai_reasoning, master_tracker, pre_requisites_status,
                   priority_score, similar_requests, validation, ai_response, result,
                   calls>>
    /\ UNCHANGED <<process_vars, concurrent_vars>>

\* CheckPrereqs writing a placeholder department into the user context
CheckPrereqs_FillsDepartment ==
    /\ pc = "check_prereqs"
    /\ pre_requisites_status' = CheckPreRequisites(rule.pre_requisites, user_context)
    /\ user_context' = [user_context EXCEPT !.department = IF @ = "" THEN "Unknown" ELSE @]
    /\ pc' = "score"
    /\ UNCHANGED <<request_type, requested_permission, ai_client,
                   use_ai_reasoning, master_tracker, rule, priority_score,
                   similar_requests, validation, ai_response, result, calls>>
    /\ UNCHANGED <<process_vars, concurrent_vars>>

\* lines 73-77
CheckPrereqs ==
    /\ pc = "check_prereqs"
    /\ pre_requisites_status' = CheckPreRequisites(rule.pre_requisites, user_context)
    /\ pc' = "score"
    /\ UNCHANGED <<request_type, requested_permission, user_context, ai_client,
                   use_ai_reasoning, master_tracker, rule, priority_score,
                   similar_requests, validation, ai_response, result, calls>>
    /\ UNCHANGED <<process_vars, concurrent_vars>>

\* lines 79-82
CalculateScore ==
    /\ pc = "score"
    /\ priority_score' = CalculatePriorityScore(rule, user_context, pre_requisites_status)
    /\ pc' = "make_decision"
    /\ UNCHANGED <<request_type, requested_permission, user_context, ai_client,
                   use_ai_reasoning, master_tracker, rule, pre_requisites_status,
                   similar_requests, validation, ai_response, result, calls>>
    /\ UNCHANGED <<process_vars, concurrent_vars>>

\* lines 93-101: the dict evaluate_request returns for the tuple _make_decision
\* gave, with the number of similar requests found
Evaluation(made, similar) ==
    [decision |-> made.decision, priority_score |-> priority_score,
     reasoning |-> made.reasoning, confidence |-> made.confidence, rule_id |-> rule.id,
     similar_requests_count |-> Len(similar)]

\* MakeDecision with the validation consulted only when the reasoning service
\* is switched off
MakeDecision_ServiceFirst ==
    /\ pc = "make_decision"
    /\ master_tracker' \in Trackers
    /\ validation' = CheckMasterTrackerValidation(requested_permission, user_context,
                                                  master_tracker')
    /\ similar_requests' \in SimilarHistories
    /\ IF validation'.rejection.present /\ ~use_ai_reasoning
       THEN /\ result' = Evaluation(validation'.rejection, similar_requests')
            /\ pc' = "done"
       ELSE /\ result' = result
            /\ pc' = IF use_ai_reasoning THEN "ai_decision" ELSE "rule_based"
    /\ calls' = calls \o <<"similar_requests", "validation">>
    /\ UNCHANGED <<request_type, requested_permission, user_context, ai_client,
                   use_ai_reasoning, rule, pre_requisites_status, priority_score,
                   ai_response>>
    /\ UNCHANGED <<process_vars, concurrent_vars>>

\* MakeDecision with the validation run only for a rule of the catalog
MakeDecision_OnlyWithRule ==
    /\ pc = "make_decision"
    /\ master_tracker' \in Trackers
    /\ validation' = IF rule.id # 0
                     THEN CheckMasterTrackerValidation(requested_permission, user_context,
                                                       master_tracker')
                     ELSE NotValidated
    /\ similar_requests' \in SimilarHistories
    /\ IF validation'.rejection.present
       THEN /\ result' = Evaluation(validation'.rejection, similar_requests')
            /\ pc' = "done"
       ELSE /\ result' = result
            /\ pc' = IF use_ai_reasoning THEN "ai_decision" ELSE "rule_based"
    /\ calls' = calls \o <<"similar_requests", "validation">>
    /\ UNCHANGED <<request_type, requested_permission, user_context, ai_client,
                   use_ai_reasoning, rule, pre_requisites_status, priority_score,
                   ai_response>>
    /\ UNCHANGED <<process_vars, concurrent_vars>>

\* line 85 and _make_decision, lines 221-236: the store answers the
\* similar-requests query, the sheet is read and the master tracker validation
\* runs; its rejection is returned, or the policy is chosen
MakeDecision ==
    /\ pc = "make_decision"
    /\ master_tracker' \in Trackers
    /\ validation' = CheckMasterTrackerValidation(requested_permission, user_context,
                                                  master_tracker')
    /\ similar_requests' \in SimilarHistories
    /\ IF validation'.rejection.present
       THEN /\ result' = Evaluation(validation'.rejection, similar_requests')
            /\ pc' = "done"
       ELSE /\ result' = result
            /\ pc' = IF use_ai_reasoning THEN "ai_decision" ELSE "rule_based"
    /\ calls' = calls \o <<"similar_requests", "validation">>
    /\ UNCHANGED <<request_type, requested_permission, user_context, ai_client,
                   use_ai_reasoning, rule, pre_requisites_status, priority_score,
                   ai_response>>
    /\ UNCHANGED <<process_vars, concurrent_vars>>

\* MakeAiDecision answering a failure with a default ticket instead of the
\* threshold policy
MakeAiDecision_DefaultOnFailure ==
    /\ pc = "ai_decision"
    /\ IF ~ai_client
       THEN /\ ai_response' = ai_response
            /\ calls' = calls
            /\ result' = Evaluation([decision |-> "create_ticket",
                                     reasoning |-> "AI decision made",
                                     confidence |-> 70], similar_requests)
       ELSE \E answer \in AiAnswers :
              LET made == AiDecisionFromAnswer(answer)
              IN  /\ ai_response' = answer
                  /\ calls' = Append(calls, "ai_decision")
                  /\ result' = Evaluation(
                         IF answer.kind # "json" \/ made.failed
                         THEN [decision |-> "create_ticket",
                               reasoning |-> "AI decision made", confidence |-> 70]
                         ELSE made, similar_requests)
    /\ pc' = "done"
    /\ UNCHANGED <<request_type, requested_permission, user_context, ai_client,
                   use_ai_reasoning, master_tracker, rule, pre_requisites_status,
                   priority_score, similar_requests, validation>>
    /\ UNCHANGED <<process_vars, concurrent_vars>>

\* _make_ai_decision: without a client, or when the call or the handling of its
\* answer raises, control passes to _make_rule_based_decision
MakeAiDecision ==
    /\ pc = "ai_decision"
    /\ IF ~ai_client
       THEN /\ ai_response' = ai_response
            /\ calls' = calls
            /\ result' = result
            /\ pc' = "rule_based"
       ELSE \E answer \in AiAnswers :
              LET made == AiDecisionFromAnswer(answer)
              IN  /\ ai_response' = answer
                  /\ calls' = Append(calls, "ai_decision")
                  /\ IF answer.kind # "json" \/ made.failed
                     THEN /\ result' = result
                          /\ pc' = "rule_based"
                     ELSE /\ result' = Evaluation(made, similar_requests)
                          /\ pc' = "done"
    /\ UNCHANGED <<request_type, requested_permission, user_context, ai_client,
                   use_ai_reasoning, master_tracker, rule, pre_requisites_status,
                   priority_score, similar_requests, validation>>
    /\ UNCHANGED <<process_vars, concurrent_vars>>

\* _make_rule_based_decision; enhance_reasoning asks the service for the wording
\* when the enhancer is enabled, and its text replaces base_reasoning when it
\* returns one
MakeRuleBasedDecision ==
    /\ pc = "rule_based"
    /\ LET made == RuleBasedDecision(rule, priority_score, pre_requisites_status,
                                     similar_requests)
           enabled == ai_client /\ use_ai_reasoning
       IN  /\ \E enhanced \in (IF enabled THEN {"", "AI explanation"} ELSE {""}) :
                 result' = Evaluation([made EXCEPT !.reasoning =
                                                   IF enhanced # "" THEN enhanced ELSE @],
                                      similar_requests)
           /\ calls' = IF enabled THEN calls \o <<"rule_based", "ai_enhance">>
                       ELSE Append(calls, "rule_based")
    /\ pc' = "done"
    /\ UNCHANGED <<request_type, requested_permission, user_context, ai_client,
                   use_ai_reasoning, master_tracker, rule, pre_requisites_status,
                   priority_score, similar_requests, validation, ai_response>>
    /\ UNCHANGED <<process_vars, concurrent_vars>>

Next ==
    \/ UnderstandRequestContext
    \/ FindRule
    \/ CheckPrereqs
    \/ CalculateScore
    \/ MakeDecision
    \/ MakeAiDecision
    \/ MakeRuleBasedDecision

Spec == Init /\ [][Next]_vars


-----------------------------------------------------------------------------
(* UAMAgent._execute_decision and _create_ticket (agents/uam_agent.py) *)

\* largest id of a request record
MaxRequestId == 3

\* datetime.now().strftime("%Y%m%d-%H%M%S") at the time of the fallback
Timestamps == {"20240101-093000", "20241231-235959"}

\* a ticket number ServiceNow answers
TicketNumber == "INC0010001"

\* what the ticketing side can do during _create_ticket: get_servicenow_client
\* returns a client or None; ucm.get_request raises, returns None or the request;
\* create_access_request raises or returns success and ticket_number.  The
\* timestamp is the clock's value when the fallback id is built.
TicketingCases ==
    {[client |-> FALSE, lookup |-> "none", answer |-> "none", timestamp |-> t] :
        t \in Timestamps}
    \cup {[client |-> TRUE, lookup |-> l, answer |-> "none", timestamp |-> t] :
             l \in {"raises", "absent"}, t \in Timestamps}
    \cup {[client |-> TRUE, lookup |-> "found", answer |-> a, timestamp |-> t] :
             a \in {"raises", "no_success", "no_ticket_number"}, t \in Timestamps}
    \cup {[client |-> TRUE, lookup |-> "found", answer |-> "ticket", timestamp |-> ""]}

\* create_access_request was called
ServiceInvoked(env) == env.client /\ env.lookup = "found"

\* CreateTicket returning nothing when no ServiceNow ticket was made
CreateTicket_NoFallback(env, rid) ==
    IF ServiceInvoked(env) /\ env.answer = "ticket" THEN TicketNumber ELSE ""

\* _create_ticket: the ticket number of ServiceNow when the call succeeded with
\* one, else the simulated id f"TKT-{timestamp}-{request_id}"
CreateTicket(env, rid) ==
    IF ServiceInvoked(env) /\ env.answer = "ticket"
    THEN TicketNumber
    ELSE "TKT-" \o env.timestamp \o "-" \o ToString(rid)

\* ExecutionOf with the reject branch missing
ExecutionOf_RejectUnhandled(decision, ticket_id) ==
    CASE decision = "grant" ->
             [status |-> "granted", auto_granted |-> TRUE, has_ticket_id |-> FALSE,
              ticket_id |-> "", message |-> "Access has been automatically granted"]
      [] decision = "ask_for_more_info" ->
             [status |-> "needs_more_info", auto_granted |-> FALSE, has_ticket_id |-> FALSE,
              ticket_id |-> "",
              message |-> "Additional information required to process this request"]
      [] decision = "create_ticket" ->
             [status |-> "ticket_created", auto_granted |-> FALSE, has_ticket_id |-> TRUE,
              ticket_id |-> ticket_id,
              message |-> "Ticket created for manual review: " \o ticket_id]
      [] OTHER ->
             [status |-> "pending_review", auto_granted |-> FALSE, has_ticket_id |-> FALSE,
              ticket_id |-> "", message |-> "Request requires manual review"]

\* the dict _execute_decision returns for a decision (has_ticket_id: the dict
\* has the key "ticket_id")
ExecutionOf(decision, ticket_id) ==
    CASE decision = "grant" ->
             [status |-> "granted", auto_granted |-> TRUE, has_ticket_id |-> FALSE,
              ticket_id |-> "", message |-> "Access has been automatically granted"]
      [] decision = "reject" ->
             [status |-> "rejected", auto_granted |-> FALSE, has_ticket_id |-> FALSE,
              ticket_id |-> "",
              message |-> "Request has been rejected based on validation rules"]
      [] decision = "ask_for_more_info" ->
             [status |-> "needs_more_info", auto_granted |-> FALSE, has_ticket_id |-> FALSE,
              ticket_id |-> "",
              message |-> "Additional information required to process this request"]
      [] decision = "create_ticket" ->
             [status |-> "ticket_created", auto_granted |-> FALSE, has_ticket_id |-> TRUE,
              ticket_id |-> ticket_id,
              message |-> "Ticket created for manual review: " \o ticket_id]
      [] OTHER ->
             [status |-> "pending_review", auto_granted |-> FALSE, has_ticket_id |-> FALSE,
              ticket_id |-> "", message |-> "Request requires manual review"]

\* the evaluations handed to _execute_decision: the four outcomes, and a
\* decision of the reasoning service that is none of them
Evaluations ==
    [decision : {"grant", "create_ticket", "reject", "ask_for_more_info", "approve"},
     priority_score : {6000, 8500},
     reasoning : {"AI decision made"},
     confidence : {75},
     rule_id : {0, 1},
     similar_requests_count : {0}]

\* a user of the store
SampleUserContext ==
    [user_id |-> "EMP001", department |-> "Finance", role |-> "Data Analyst",
     current_permissions |-> <<"Email">>,
     context_data |-> [employee_type |-> "", security_clearance_level |-> 1,
                       completed_trainings |-> <<>>,
                       contextual_understanding |-> NoUnderstanding]]

\* the permissions the requests submitted to process_request ask for
ProcessPermissions == {"Salesforce Access", "VPN Access"}

\* the keyword arguments process_request gives to add_request (lines 44-51):
\* the status of the new record is the decision of the evaluation
RequestFields(user_id, type, permission, evaluation) ==
    [user_id |-> user_id, request_type |-> type, requested_permission |-> permission,
     status |-> evaluation.decision]

\* add_request: the record is stored with the next id and is not auto-granted
AddRequest(requests, fields) ==
    Append(requests,
           [id |-> Len(requests) + 1, user_id |-> fields.user_id,
            request_type |-> fields.request_type,
            requested_permission |-> fields.requested_permission,
            status |-> fields.status, auto_granted |-> FALSE, ticket_id |-> ""])

\* update_request(id, status=..., auto_granted=..., ticket_id=...): the record
\* of that id takes the values, the other records stay
UpdateRequest(requests, id, status, auto_granted, ticket_id) ==
    [i \in 1..Len(requests) |->
        IF requests[i].id = id
        THEN [requests[i] EXCEPT !.status = status, !.auto_granted = auto_granted,
                                 !.ticket_id = ticket_id]
        ELSE requests[i]]

\* the positions of the stored records that ask for the permission
SimilarPositions(requests, permission) ==
    {i \in 1..Len(requests) : requests[i].requested_permission = permission}

RECURSIVE AutoGrantedFlags(_, _, _)
\* the auto_granted flags of the records at the positions, from position i on
AutoGrantedFlags(requests, positions, i) ==
    IF i > Len(requests) THEN <<>>
    ELSE (IF i \in positions THEN <<requests[i].auto_granted>> ELSE <<>>)
         \o AutoGrantedFlags(requests, positions, i + 1)

\* get_similar_requests(requested_permission): the stored records that ask for
\* the same permission, as their auto_granted flags
GetSimilarRequests(requests, permission) ==
    AutoGrantedFlags(requests, SimilarPositions(requests, permission), 1)

\* the arguments process_request gives to log_request_decision (lines 81-95):
\* the decision logged is the status _execute_decision returned
AuditEntry(id, user_id, evaluation, executed) ==
    [request_id |-> id, user_id |-> user_id, decision |-> executed.status,
     reasoning |-> evaluation.reasoning]

\* log_request_decision: one entry is appended to the audit trail
LogRequestDecision(audit, entry) == Append(audit, entry)

\* no process_request call has been made
ProcessInit ==
    /\ pc = "idle"
    /\ request_type = "application_access"
    /\ requested_permission = ""
    /\ user_context = SampleUserContext
    /\ ai_client = FALSE
    /\ use_ai_reasoning = FALSE
    /\ master_tracker = <<>>
    /\ rule = NoRule
    /\ pre_requisites_status = <<>>
    /\ priority_score = 0
    /\ similar_requests = <<>>
    /\ validation = NotValidated
    /\ ai_response = NoAnswer
    /\ result = NoResult
    /\ calls = <<>>
    /\ request_id = 0
    /\ ticketing = NoTicketing
    /\ execution = NoExecution
    /\ store = NoStore
    /\ requests_submitted = 0
    /\ evaluations = <<>>
    /\ shared = NoShared

\* a caller calls process_request: its locals are unset; the calls before it
\* have returned or raised
ProcessRequest ==
    /\ pc \in {"idle", "returned", "raised"}
    /\ requests_submitted < MaxRequestId
    /\ requests_submitted' = requests_submitted + 1
    /\ requested_permission' \in ProcessPermissions
    /\ result' = NoResult
    /\ similar_requests' = <<>>
    /\ request_id' = 0
    /\ ticketing' = NoTicketing
    /\ execution' = NoExecution
    /\ calls' = <<>>
    /\ pc' = "evaluate"
    /\ UNCHANGED <<request_type, user_context, ai_client, use_ai_reasoning,
                   master_tracker, rule, pre_requisites_status, priority_score,
                   validation, ai_response, store>>
    /\ UNCHANGED concurrent_vars

\* lines 39-41: evaluate_request reads the similar requests from the store and
\* returns its dict, or raises (line 50 of evaluate_request) and process_request
\* ends with the exception
EvaluateRequest ==
    /\ pc = "evaluate"
    /\ \E similar \in {GetSimilarRequests(store.requests, requested_permission)} :
         \/ /\ similar_requests' = similar
            /\ \E evaluation \in Evaluations :
                 result' = [evaluation EXCEPT !.similar_requests_count = Len(similar)]
            /\ pc' = "add_request"
         \/ /\ similar_requests' = similar_requests
            /\ result' = result
            /\ pc' = "raised"
    /\ UNCHANGED <<request_type, requested_permission, user_context, ai_client,
                   use_ai_reasoning, master_tracker, rule, pre_requisites_status,
                   priority_score, validation, ai_response, calls>>
    /\ UNCHANGED <<process_vars, concurrent_vars>>

\* lines 44-51: the request record is created with the decision as its status
AddRequestRecord ==
    /\ pc = "add_request"
    /\ \E requests \in {AddRequest(store.requests,
                                   RequestFields(user_context.user_id, request_type,
                                                 requested_permission, result))} :
         /\ store' = [store EXCEPT !.requests = requests]
         /\ request_id' = requests[Len(requests)].id
    /\ pc' = "execute"
    /\ UNCHANGED <<request_type, requested_permission, user_context, ai_client,
                   use_ai_reasoning, master_tracker, rule, pre_requisites_status,
                   priority_score, similar_requests, validation, ai_response, result,
                   calls, ticketing, execution, requests_submitted>>
    /\ UNCHANGED concurrent_vars

\* _execute_decision(request.id, evaluation), with the _create_ticket call of
\* its create_ticket branch
ExecuteDecision ==
    /\ pc = "execute"
    /\ IF result.decision = "create_ticket"
       THEN \E env \in TicketingCases :
              /\ ticketing' = env
              /\ execution' = ExecutionOf(result.decision, CreateTicket(env, request_id))
              /\ calls' = calls \o <<"create_ticket">>
                          \o (IF ServiceInvoked(env) THEN <<"servicenow">> ELSE <<>>)
       ELSE /\ ticketing' = ticketing
            /\ execution' = ExecutionOf(result.decision, "")
            /\ calls' = calls
    /\ pc' = "executed"
    /\ UNCHANGED <<request_type, requested_permission, user_context, ai_client,
                   use_ai_reasoning, master_tracker, rule, pre_requisites_status,
                   priority_score, similar_requests, validation, ai_response, result,
                   request_id, store, requests_submitted>>
    /\ UNCHANGED concurrent_vars

\* lines 57-64: the record takes the final status, auto_granted and the ticket id
UpdateRequestRecord ==
    /\ pc = "executed"
    /\ store' = [store EXCEPT !.requests =
                    UpdateRequest(store.requests, request_id, execution.status,
                                  execution.auto_granted, execution.ticket_id)]
    /\ pc' = "log_audit"
    /\ UNCHANGED <<request_type, requested_permission, user_context, ai_client,
                   use_ai_reasoning, master_tracker, rule, pre_requisites_status,
                   priority_score, similar_requests, validation, ai_response, result,
                   calls, request_id, ticketing, execution, requests_submitted>>
    /\ UNCHANGED concurrent_vars

\* lines 66-108: the audit entry is logged and the result is returned
LogAudit ==
    /\ pc = "log_audit"
    /\ store' = [store EXCEPT !.audit =
                    LogRequestDecision(store.audit,
                                       AuditEntry(request_id, user_context.user_id,
                                                  result, execution))]
    /\ pc' = "returned"
    /\ UNCHANGED <<request_type, requested_permission, user_context, ai_client,
                   use_ai_reasoning, master_tracker, rule, pre_requisites_status,
                   priority_score, similar_requests, validation, ai_response, result,
                   calls, request_id, ticketing, execution, requests_submitted>>
    /\ UNCHANGED concurrent_vars

ProcessNext ==
    \/ ProcessRequest
    \/ EvaluateRequest
    \/ AddRequestRecord
    \/ ExecuteDecision
    \/ UpdateRequestRecord
    \/ LogAudit

ProcessSpec == ProcessInit /\ [][ProcessNext]_vars

-----------------------------------------------------------------------------
(* The row selection of _check_master_tracker_validation on its own *)

\* longest sheet the selection is run on
MaxRows == 3

\* rows a sheet is made of: role, application (no training, no exception)
SelectionRows ==
    { [role |-> r[1], application |-> r[2], training_required |-> "",
       exception_scenario |-> ""] :
      r \in { <<"Data Analyst", "Oracle">>,
              <<"Senior Data Analyst", "Oracle">>,
              <<"Senior Data Analyst", "SAP HR">>,
              <<"Data Analyst", "SAP">>,
              <<"Developer", "SAP">>,
              <<"", "SAP">>,
              <<"", "Oracle">> } }

\* the sheets of at most n different rows, in every order
Sheets(n) ==
    UNION {{sheet \in [1..k -> SelectionRows] :
               \A i, j \in 1..k : i # j => sheet[i] # sheet[j]} : k \in 0..n}

SelectionRequests == {"SAP - Data Analyst", "SAP", "Oracle - Data Analyst"}

SelectionRoles == {"", "Data Analyst", "Developer"}

\* _check_master_tracker_validation is about to run on a sheet, a requested
\* permission and a user
SelectInit ==
    /\ pc = "select"
    /\ request_type = "application_access"
    /\ requested_permission \in SelectionRequests
    /\ \E declared \in SelectionRoles :
          user_context = [SampleUserContext EXCEPT !.role = declared]
    /\ ai_client = FALSE
    /\ use_ai_reasoning = FALSE
    /\ master_tracker \in Sheets(MaxRows)
    /\ rule = NoRule
    /\ pre_requisites_status = <<>>
    /\ priority_score = 0
    /\ similar_requests = <<>>
    /\ validation = NotValidated
    /\ ai_response = NoAnswer
    /\ result = NoResult
    /\ calls = <<>>
    /\ request_id = 0
    /\ ticketing = NoTicketing
    /\ execution = NoExecution
    /\ store = NoStore
    /\ requests_submitted = 0
    /\ evaluations = <<>>
    /\ shared = NoShared

\* one call of _check_master_tracker_validation
SelectBestRow ==
    /\ pc = "select"
    /\ validation' = CheckMasterTrackerValidation(requested_permission, user_context,
                                                  master_tracker)
    /\ calls' = Append(calls, "validation")
    /\ pc' = "selected"
    /\ UNCHANGED <<request_type, requested_permission, user_context, ai_client,
                   use_ai_reasoning, master_tracker, rule, pre_requisites_status,
                   priority_score, similar_requests, ai_response, result>>
    /\ UNCHANGED <<process_vars, concurrent_vars>>

SelectNext == SelectBestRow

SelectSpec == SelectInit /\ [][SelectNext]_vars

-----------------------------------------------------------------------------
(* Two evaluations of evaluate_request running at the same time *)

\* the evaluations under way
Evaluators == {1, 2}

\* the users of the store, by user id
UserStore ==
    [EMP001 |-> [user_id |-> "EMP001", department |-> "Finance", role |-> "",
                 current_permissions |-> <<"Email">>,
                 context_data |-> [employee_type |-> "", security_clearance_level |-> 1,
                                   completed_trainings |-> <<>>,
                                   contextual_understanding |-> NoUnderstanding]],
     EMP002 |-> [user_id |-> "EMP002", department |-> "Finance", role |-> "Data Analyst",
                 current_permissions |-> <<>>,
                 context_data |-> [employee_type |-> "Contractor",
                                   security_clearance_level |-> 2,
                                   completed_trainings |-> <<"database security training">>,
                                   contextual_understanding |-> NoUnderstanding]]]

\* the requests evaluated side by side
ConcurrentRequests ==
    { <<"application_access", "Medidata - Data Analyst - (Read-Only)">>,
      <<"application_access", "Salesforce - Data Analyst">>,
      <<"system_access", "Salesforce - Developer">> }

\* what the reasoning service and the store answer to one evaluation: the
\* understanding of the request and the similar requests found
ConcurrentAnswers ==
    {NoUnderstanding,
     [present |-> TRUE, extracted_role |-> "Developer",
      extracted_application |-> "Salesforce", application_is_text |-> TRUE]}

ConcurrentHistories == {<<>>, [i \in 1..MaxSimilar |-> TRUE]}

\* the locals of an evaluation that has not started (request: the arguments as
\* the caller passed them)
NewEvaluation(req, user_id, answer, similar) ==
    [pc |-> "start", request |-> req, user_id |-> user_id, request_type |-> req[1],
     requested_permission |-> req[2], answer |-> answer, similar_requests |-> similar,
     user_context |-> UserStore[user_id], rule |-> NoRule,
     pre_requisites_status |-> <<>>, priority_score |-> 0, validation |-> NotValidated,
     result |-> NoResult]

\* the store with the dict an evaluation works on handed back by reference:
\* what the evaluation stores in it is stored for the user
UsersAfterEvaluationWrites_ByReference(users, user_id, context) ==
    [users EXCEPT ![user_id] = context]

\* get_user_context hands each evaluation a snapshot of the user: what the
\* evaluation stores in its dict (lines 46-56) stays with the evaluation
UsersAfterEvaluationWrites(users, user_id, context) == users

\* lines 44-56 on the locals of one evaluation: the understanding folded into
\* its user context and its requested permission
FoldedIn(context, permission, answer) ==
    LET new_role ==
            IF answer.present /\ answer.extracted_role # "" /\ context.role = ""
            THEN answer.extracted_role ELSE context.role
        lowered == answer.present /\ answer.extracted_application # "" /\ permission # ""
        new_permission ==
            IF lowered /\ ~Contains(Lower(answer.extracted_application), Lower(permission))
            THEN answer.extracted_application \o " - " \o permission
            ELSE permission
    IN  IF lowered /\ ~answer.application_is_text
        THEN [raised |-> TRUE, requested_permission |-> permission,
              user_context |-> [context EXCEPT !.role = new_role]]
        ELSE [raised |-> FALSE, requested_permission |-> new_permission,
              user_context |-> [context EXCEPT !.role = new_role,
                                               !.context_data.contextual_understanding =
                                                   answer]]

\* lines 93-101 on the locals of one evaluation
EvaluationOf(local, made) ==
    [decision |-> made.decision, priority_score |-> local.priority_score,
     reasoning |-> made.reasoning, confidence |-> made.confidence,
     rule_id |-> local.rule.id, similar_requests_count |-> Len(local.similar_requests)]

\* two evaluations of different requests are about to run against the same
\* catalog, rows and store
ConcurrentInit ==
    /\ pc = "concurrent"
    /\ request_type = ""
    /\ requested_permission = ""
    /\ user_context = SampleUserContext
    /\ ai_client = TRUE
    /\ use_ai_reasoning = FALSE
    /\ master_tracker = <<>>
    /\ rule = NoRule
    /\ pre_requisites_status = <<>>
    /\ priority_score = 0
    /\ similar_requests = <<>>
    /\ validation = NotValidated
    /\ ai_response = NoAnswer
    /\ result = NoResult
    /\ calls = <<>>
    /\ request_id = 0
    /\ ticketing = NoTicketing
    /\ execution = NoExecution
    /\ store = NoStore
    /\ requests_submitted = 0
    /\ shared = [catalog |-> RuleCatalog, rows |-> TrackerRows, users |-> UserStore]
    /\ \E req \in {r \in [Evaluators -> ConcurrentRequests] : r[1] # r[2]},
          user \in [Evaluators -> DOMAIN UserStore],
          answer \in [Evaluators -> ConcurrentAnswers],
          similar \in [Evaluators -> ConcurrentHistories] :
          evaluations =
              [e \in Evaluators |->
                  NewEvaluation(req[e], user[e], answer[e], similar[e])]

\* what a step of evaluation e leaves alone
OnlyEvaluations ==
    UNCHANGED <<pc, request_type, requested_permission, user_context, ai_client,
                use_ai_reasoning, master_tracker, rule, pre_requisites_status,
                priority_score, similar_requests, validation, ai_response, result, calls,
                process_vars>>

\* lines 36-56 in evaluation e: the user is read from the store and the
\* understanding is folded in
Understand(e) ==
    /\ evaluations[e].pc = "start"
    /\ \E local \in {evaluations[e]} :
       \E folded \in {FoldedIn(shared.users[local.user_id], local.requested_permission,
                               local.answer)} :
          /\ evaluations' =
                 [evaluations EXCEPT ![e] =
                     [local EXCEPT !.user_context = folded.user_context,
                                   !.requested_permission = folded.requested_permission,
                                   !.pc = IF folded.raised THEN "raised" ELSE "find_rule"]]
          /\ shared' = [shared EXCEPT !.users =
                           UsersAfterEvaluationWrites(@, local.user_id,
                                                      folded.user_context)]
    /\ OnlyEvaluations

\* lines 58-71 in evaluation e
LookUpRule(e) ==
    /\ evaluations[e].pc = "find_rule"
    /\ \E local \in {evaluations[e]} :
       \E found \in {FindPermissionRule(shared.catalog, local.requested_permission,
                                        local.request_type)} :
          evaluations' =
              [evaluations EXCEPT ![e] =
                  [local EXCEPT !.rule = IF found # 0 THEN shared.catalog[found]
                                         ELSE TemporaryRule(local.requested_permission,
                                                            local.request_type),
                                !.pc = "check_prereqs"]]
    /\ UNCHANGED shared
    /\ OnlyEvaluations

\* lines 73-82 in evaluation e
CheckAndScore(e) ==
    /\ evaluations[e].pc = "check_prereqs"
    /\ \E local \in {evaluations[e]} :
       \E status \in {CheckPreRequisites(local.rule.pre_requisites, local.user_context)} :
          evaluations' =
              [evaluations EXCEPT ![e] =
                  [local EXCEPT !.pre_requisites_status = status,
                                !.priority_score =
                                    CalculatePriorityScore(local.rule, local.user_context,
                                                           status),
                                !.pc = "make_decision"]]
    /\ UNCHANGED shared
    /\ OnlyEvaluations

\* line 85 and _make_decision, lines 221-236, in evaluation e: the sheet is
\* read and the master tracker validation runs on the rows read
Validate(e) ==
    /\ evaluations[e].pc = "make_decision"
    /\ \E local \in {evaluations[e]} :
       \E checked \in {CheckMasterTrackerValidation(local.requested_permission,
                                                    local.user_context, shared.rows)} :
          evaluations' =
              [evaluations EXCEPT ![e] =
                  IF checked.rejection.present
                  THEN [local EXCEPT !.validation = checked,
                                     !.result = EvaluationOf(local, checked.rejection),
                                     !.pc = "done"]
                  ELSE [local EXCEPT !.validation = checked, !.pc = "rule_based"]]
    /\ UNCHANGED shared
    /\ OnlyEvaluations

\* _make_rule_based_decision in evaluation e
DecideByRules(e) ==
    /\ evaluations[e].pc = "rule_based"
    /\ \E local \in {evaluations[e]} :
       \E made \in {RuleBasedDecision(local.rule, local.priority_score,
                                      local.pre_requisites_status,
                                      local.similar_requests)} :
          evaluations' =
              [evaluations EXCEPT ![e] =
                  [local EXCEPT !.result = EvaluationOf(local, made), !.pc = "done"]]
    /\ UNCHANGED shared
    /\ OnlyEvaluations

ConcurrentNext ==
    \/ \E e \in Evaluators : Understand(e)
    \/ \E e \in Evaluators : LookUpRule(e)
    \/ \E e \in Evaluators : CheckAndScore(e)
    \/ \E e \in Evaluators : Validate(e)
    \/ \E e \in Evaluators : DecideByRules(e)

ConcurrentSpec == ConcurrentInit /\ [][ConcurrentNext]_vars

-----------------------------------------------------------------------------
(* The validation of one selected row, lines 721-758 of                     *)
(* _check_master_tracker_validation                                         *)

\* the trainings a user of the validation may have completed ("" is an entry
\* the code drops)
ValidatorTrainingNames ==
    {"Database Basics", "database security training", "Database Security",
     "Data Loss Basics", "Safety Basics", ""}

\* the lists of at most n completed trainings
CompletedLists(n) == UNION {[1..k -> ValidatorTrainingNames] : k \in 0..n}

\* the row_data dicts validated: role, training and exception as extracted
ValidatedRows ==
    [role : {"", "Data Analyst"},
     application : {"Salesforce"},
     training_required : {"", "Database Security Training",
                          "Data Loss Prevention Training", "Training Course",
                          "Safety Training"},
     exception_scenario : {"", "Role not permitted for contractors",
                           "Interns and external users not permitted",
                           "Not permitted for Non Finance resources",
                           "Not permitted for Non HR resources"},
     row_index : {1},
     match_score : {0}]

\* the users the row is validated against
ValidatedUsers ==
    [user_id : {"EMP001"},
     department : {"", "Finance", "HR"},
     role : {"", "Developer", "Senior Data Analyst"},
     current_permissions : {<<>>},
     context_data : [employee_type : {"", "Contractor", "Intern", "External"},
                     security_clearance_level : {1},
                     completed_trainings : CompletedLists(MaxTrainings),
                     contextual_understanding : {NoUnderstanding}]]

\* a row has been selected and is about to be validated
ValidateInit ==
    /\ pc = "validate"
    /\ request_type = "application_access"
    /\ requested_permission = "Salesforce"
    /\ user_context \in ValidatedUsers
    /\ ai_client = FALSE
    /\ use_ai_reasoning = FALSE
    /\ master_tracker = <<>>
    /\ rule = NoRule
    /\ pre_requisites_status = <<>>
    /\ priority_score = 0
    /\ similar_requests = <<>>
    /\ \E row_data \in ValidatedRows :
          validation = [NotValidated EXCEPT !.matching_rows_data = <<row_data>>,
                                            !.best_matching_row = row_data]
    /\ ai_response = NoAnswer
    /\ result = NoResult
    /\ calls = <<>>
    /\ request_id = 0
    /\ ticketing = NoTicketing
    /\ execution = NoExecution
    /\ store = NoStore
    /\ requests_submitted = 0
    /\ evaluations = <<>>
    /\ shared = NoShared

\* lines 721-758: the selected row is validated and the rejection tuple built
ValidateBestRow ==
    /\ pc = "validate"
    /\ \E v \in {ValidateRowAgainstUserContext(validation.best_matching_row,
                                               user_context)} :
          validation' =
              [validation EXCEPT
                  !.ran = TRUE,
                  !.validation = v,
                  !.rejection =
                      ValidationRejection(
                          CriticalRejectionReasons(validation.best_matching_row, v,
                                                   user_context))]
    /\ pc' = "validated"
    /\ UNCHANGED <<request_type, requested_permission, user_context, ai_client,
                   use_ai_reasoning, master_tracker, rule, pre_requisites_status,
                   priority_score, similar_requests, ai_response, result, calls>>
    /\ UNCHANGED <<process_vars, concurrent_vars>>

ValidateNext == ValidateBestRow

ValidateSpec == ValidateInit /\ [][ValidateNext]_vars

-----------------------------------------------------------------------------
(* _check_pre_requisites on its own *)

\* longest list of phrases checked
MaxPhrases == 2

\* the phrases of a rule's pre_requisites ("" is an empty entry)
Phrases ==
    {"Valid Employee ID", "Employee ID and Department", "Department Approval",
     "Manager Approval for Security Clearance", "Security Clearance Training",
     "Security Training", "Training for Role", "Role", "Badge", "Finance", ""}

\* the lists of at most n phrases, repetitions included
PhraseLists(n) == UNION {[1..k -> Phrases] : k \in 0..n}

\* the users the phrases are checked against
CheckedUsers ==
    [user_id : {"", "EMP001"},
     department : {"", "Finance"},
     role : {"", "Data Analyst"},
     current_permissions : {<<>>},
     context_data : [employee_type : {""},
                     security_clearance_level : {1, 2, 3},
                     completed_trainings : {<<>>, <<"Security Basics">>},
                     contextual_understanding : {NoUnderstanding}]]

\* _check_pre_requisites is about to run on the phrases of a rule and a user
CheckInit ==
    /\ pc = "check"
    /\ request_type = "application_access"
    /\ requested_permission = "Salesforce"
    /\ user_context \in CheckedUsers
    /\ ai_client = FALSE
    /\ use_ai_reasoning = FALSE
    /\ master_tracker = <<>>
    /\ \E phrases \in PhraseLists(MaxPhrases) :
          rule = [TemporaryRule(requested_permission, request_type)
                      EXCEPT !.pre_requisites = phrases]
    /\ pre_requisites_status = <<>>
    /\ priority_score = 0
    /\ similar_requests = <<>>
    /\ validation = NotValidated
    /\ ai_response = NoAnswer
    /\ result = NoResult
    /\ calls = <<>>
    /\ request_id = 0
    /\ ticketing = NoTicketing
    /\ execution = NoExecution
    /\ store = NoStore
    /\ requests_submitted = 0
    /\ evaluations = <<>>
    /\ shared = NoShared

\* one call of _check_pre_requisites
CheckPhrases ==
    /\ pc = "check"
    /\ pre_requisites_status' = CheckPreRequisites(rule.pre_requisites, user_context)
    /\ pc' = "checked"
    /\ UNCHANGED <<request_type, requested_permission, user_context, ai_client,
                   use_ai_reasoning, master_tracker, rule, priority_score,
                   similar_requests, validation, ai_response, result, calls>>
    /\ UNCHANGED <<process_vars, concurrent_vars>>

CheckNext == CheckPhrases

CheckSpec == CheckInit /\ [][CheckNext]_vars

-----------------------------------------------------------------------------
(* Properties of an evaluation *)

Outcomes == {"grant", "create_ticket", "reject", "ask_for_more_info"}

\* the row _check_master_tracker_validation selected, when it selected one
RowSelected == validation.ran /\ validation.best_matching_row.row_index # 0
SelectedRow == validation.best_matching_row

\* the selected row names a training ("", "nan" and "none" name none)
RequiresTraining(row_data) ==
    Lower(Strip(row_data.training_required)) \notin {"", "nan", "none"}

\* the evaluation ended in the mandatory check: neither policy ran
ShortCircuited ==
    /\ pc = "done"
    /\ \A i \in 1..Len(calls) : calls[i] \notin {"ai_decision", "rule_based"}

\* the threshold policy produced the result
ByThresholdPolicy == pc = "done" /\ \E i \in 1..Len(calls) : calls[i] = "rule_based"

\* C1 (as stated): whatever the reasoning service answers, the returned
\* decision is one of grant, create_ticket, reject, ask_for_more_info and the
\* returned confidence lies in [0, 1].
C1_DecisionIsAnOutcome ==
    pc = "done" => result.decision \in Outcomes /\ result.confidence \in 0..100

-----------------------------------------------------------------------------

\* the employee type the exception triggers look at
EmployeeType(ctx) ==
    Lower(IF ctx.context_data.employee_type # "" THEN ctx.context_data.employee_type
          ELSE "Full-time")

\* a contractor, external or intern trigger of the scenario matches the
\* employee type
ExceptionMatchesEmployeeType(scenario, ctx) ==
    LET text == Lower(scenario)
        type == EmployeeType(ctx)
    IN  \/ /\ Contains("contractor", text)
           /\ (Contains("contractor", type) \/ Contains("external", type))
        \/ Contains("intern", text) /\ Contains("intern", type)
        \/ /\ Contains("external", text)
           /\ (Contains("external", type) \/ Contains("contractor", type))

\* C2: when the selected row has a non-empty exception scenario that matches
\* the user's employee type, the evaluation returns reject, whatever the score,
\* the auto-grant flag, the history and the reasoning service's answer.
C2_ExceptionAlwaysRejects ==
    (/\ pc = "done"
     /\ result.decision # "reject"
     /\ RowSelected
     /\ SelectedRow.exception_scenario # "")
    => ~ExceptionMatchesEmployeeType(SelectedRow.exception_scenario, user_context)

\* C2 witness: a contractor or intern asks for a row that excludes them, with a
\* perfect score, an auto-grant rule, a favourable history and the reasoning
\* service switched on; the evaluation rejects.
C2_Witness ==
    /\ pc = "done"
    /\ result.decision = "reject"
    /\ priority_score = 10000
    /\ rule.auto_grant_enabled
    /\ use_ai_reasoning /\ ai_client
    /\ similar_requests # <<>> /\ \A i \in 1..Len(similar_requests) : similar_requests[i]
    /\ RowSelected
    /\ ~RequiresTraining(SelectedRow)
    /\ SelectedRow.exception_scenario # ""
    /\ ExceptionMatchesEmployeeType(SelectedRow.exception_scenario, user_context)

-----------------------------------------------------------------------------

\* the words of a lower-cased training name longer than n characters that are
\* not generic
SignificantWords(lowered, n) ==
    {w \in Range(Split(lowered)) :
        Len(w) > n /\ w \notin {"training", "course", "certification"}}

\* the completed training equals the required one case-insensitively, is a
\* substring of it or contains it, or shares two words longer than n with it
CloseTo(required, completed, n) ==
    LET r == Lower(required)
        c == Lower(completed)
    IN  \/ r = c
        \/ Contains(r, c)
        \/ Contains(c, r)
        \/ Cardinality(SignificantWords(r, n) \cap SignificantWords(c, n)) >= 2

\* the completed training carries every significant word of the required one
CoversWords(required, completed, n) ==
    LET words == SignificantWords(Lower(required), n)
    IN  words # {} /\ words \subseteq SignificantWords(Lower(completed), n)

CompletedTrainings == user_context.context_data.completed_trainings

\* C3 (as stated): when the selected row requires a training and no completed
\* training equals it, is a substring of it, contains it or shares at least two
\* significant words (longer than 4 characters) with it, the outcome is reject.
C3_NoCloseTrainingRejects ==
    (/\ pc = "done"
     /\ result.decision # "reject"
     /\ RowSelected
     /\ RequiresTraining(SelectedRow))
    => \E i \in 1..Len(CompletedTrainings) :
           CloseTo(Strip(SelectedRow.training_required), CompletedTrainings[i], 4)

\* C3 (amended): when the selected row requires a training and no completed
\* training equals it, is a substring of it, contains it, shares at least two
\* significant words with it or carries every significant word of it
\* (significant: longer than 3 characters and not training, course or
\* certification), the outcome is reject.
C3_NoMatchingTrainingRejects ==
    (/\ pc = "done"
     /\ result.decision # "reject"
     /\ RowSelected
     /\ RequiresTraining(SelectedRow))
    => \E i \in 1..Len(CompletedTrainings) :
           \/ CloseTo(Strip(SelectedRow.training_required), CompletedTrainings[i], 3)
           \/ CoversWords(Strip(SelectedRow.training_required), CompletedTrainings[i], 3)

\* C3 witness: required is "Database Security Training", the user completed
\* only "Database Basics" and no exception applies; the evaluation rejects.
C3_Witness ==
    /\ pc = "done"
    /\ result.decision = "reject"
    /\ RowSelected
    /\ SelectedRow.training_required = "Database Security Training"
    /\ CompletedTrainings = <<"Database Basics">>
    /\ SelectedRow.exception_scenario = ""
    /\ use_ai_reasoning /\ ai_client

-----------------------------------------------------------------------------

\* the validation of the selected row found a training or exception violation
RowViolation ==
    /\ RowSelected
    /\ \/ validation.validation.exception_violated
       \/ RequiresTraining(SelectedRow) /\ ~validation.validation.training_match

\* the calls that reach the reasoning service
ServiceCalls == {"ai_understand", "ai_decision", "ai_enhance"}

-----------------------------------------------------------------------------

\* text begins with lead
StartsWith(text, lead) ==
    Len(text) >= Len(lead) /\ SubSeq(text, 1, Len(lead)) = lead

\* C5: a reject produced by the mandatory check has confidence 0.95 and its
\* reasoning names the violated field: the required training when the training
\* is unmatched, else the exception scenario of the selected row.
C5_ShortCircuitRejectIsSpecific ==
    (ShortCircuited /\ result.decision = "reject") =>
        /\ result.confidence >= 90
        /\ result.confidence = 95
        /\ RowSelected
        /\ IF RequiresTraining(SelectedRow) /\ ~validation.validation.training_match
           THEN StartsWith(result.reasoning,
                           "Required training '" \o Strip(SelectedRow.training_required)
                           \o "'")
           ELSE /\ SelectedRow.exception_scenario # ""
                /\ result.reasoning
                     = "EXCEPTION VIOLATION: " \o SelectedRow.exception_scenario

\* C5 witness: a short-circuit reject whose row fails on the exception alone.
C5_Witness ==
    /\ ShortCircuited
    /\ result.decision = "reject"
    /\ validation.validation.exception_violated
    /\ ~RequiresTraining(SelectedRow)

-----------------------------------------------------------------------------

\* the delegated decision failed: no client, the call raised (an error, a
\* timeout), the output was no JSON, the confidence was no number, or the
\* missing_info of an ask_for_more_info answer could not be joined
DelegatedDecisionFailed ==
    \/ ~ai_client
    \/ ai_response.kind \in {"raises", "unparseable"}
    \/ /\ ai_response.kind = "json"
       /\ \/ ai_response.confidence.kind = "text"
          \/ /\ ai_response.decision = "ask_for_more_info"
             /\ ai_response.missing_info = "not_strings"

\* C6: with the reasoning service switched on and the mandatory check passed,
\* a failed delegated decision yields the decision and the confidence of the
\* threshold policy for the same rule, score, prerequisite status and history.
C6_FailureFallsBackToPolicy ==
    (/\ pc = "done"
     /\ use_ai_reasoning
     /\ ~ShortCircuited
     /\ DelegatedDecisionFailed)
    => LET policy == RuleBasedDecision(rule, priority_score, pre_requisites_status,
                                       similar_requests)
       IN  /\ result.decision = policy.decision
           /\ result.confidence = policy.confidence
           /\ ByThresholdPolicy

\* C6 witness: the service raised, and the evaluation returned the policy's
\* grant.
C6_Witness ==
    /\ pc = "done"
    /\ use_ai_reasoning /\ ai_client
    /\ ai_response.kind = "raises"
    /\ result.decision = "grant"
    /\ result.confidence = 95

-----------------------------------------------------------------------------

\* the outcome and the confidence (hundredths) the stated policy gives
StatedPolicy(score, auto_grant, met, total) ==
    IF score >= 100 * AUTO_GRANT_THRESHOLD /\ auto_grant
    THEN (IF 10 * met >= 8 * total THEN <<"grant", 85>> ELSE <<"create_ticket", 70>>)
    ELSE IF score >= 100 * REQUIRE_APPROVAL_THRESHOLD THEN <<"create_ticket", 75>>
    ELSE <<"create_ticket", 80>>

PrereqsMet == Cardinality({p \in DOMAIN pre_requisites_status : pre_requisites_status[p].met})
PrereqsTotal == Cardinality(DOMAIN pre_requisites_status)
HistoryGranted == Cardinality({i \in 1..Len(similar_requests) : similar_requests[i]})

\* C7: the threshold policy returns grant (0.85) for an auto-grant rule with
\* score >= AUTO_GRANT_THRESHOLD and at least 80% of the prerequisites met,
\* create_ticket (0.70) for such a rule with fewer met, else create_ticket
\* (0.75) for score >= REQUIRE_APPROVAL_THRESHOLD, else create_ticket (0.80);
\* the confidence is the stated one wherever under 70% of the history (or no
\* history) was auto-granted.  An auto-grant rule of high priority with every
\* prerequisite met gets grant.
C7_ThresholdPolicy ==
    ByThresholdPolicy =>
        LET stated == StatedPolicy(priority_score, rule.auto_grant_enabled,
                                   PrereqsMet, PrereqsTotal)
        IN  /\ result.decision = stated[1]
            /\ (similar_requests = <<>> \/ 10 * HistoryGranted < 7 * Len(similar_requests))
               => result.confidence = stated[2]
            /\ (/\ rule.auto_grant_enabled
                /\ Lower(rule.priority_level) = "high"
                /\ PrereqsMet = PrereqsTotal)
               => result.decision = "grant"

\* C7 witness: no reasoning service, an auto-grant rule of high priority, every
\* prerequisite met, the check passed and no history: grant with 0.85.
C7_Witness ==
    /\ ByThresholdPolicy
    /\ ~use_ai_reasoning /\ ~ai_client
    /\ rule.auto_grant_enabled
    /\ Lower(rule.priority_level) = "high"
    /\ PrereqsMet = PrereqsTotal
    /\ RowSelected
    /\ similar_requests = <<>>
    /\ result.decision = "grant"
    /\ result.confidence = 85

-----------------------------------------------------------------------------

\* C8 (as stated): when at least 70% of the similar requests were auto-granted
\* (exactly 70% included), 0.1 is added to the confidence of a grant, and only
\* then; the confidence is capped at 1.0 and the outcome does not change.
C8_BonusFromSeventyPercent ==
    ByThresholdPolicy =>
        LET stated == StatedPolicy(priority_score, rule.auto_grant_enabled,
                                   PrereqsMet, PrereqsTotal)
            applies == /\ similar_requests # <<>>
                       /\ 10 * HistoryGranted >= 7 * Len(similar_requests)
                       /\ stated[1] = "grant"
            raised == IF stated[2] + 10 > 100 THEN 100 ELSE stated[2] + 10
        IN  /\ result.decision = stated[1]
            /\ result.confidence = IF applies THEN raised ELSE stated[2]

-----------------------------------------------------------------------------

\* the status in which the first k phrases of the rule are the met ones
StatusWithMet(k) ==
    [p \in DOMAIN pre_requisites_status |->
        [met |-> \E i \in 1..k : rule.pre_requisites[i] = p, details |-> ""]]

ScoreWithMet(k) == CalculatePriorityScore(rule, user_context, StatusWithMet(k))

ScoreComputed == pc \in {"make_decision", "ai_decision", "rule_based", "done"}

\* C9: the score lies in [0, 100] and, the rule and the user being fixed, does
\* not decrease when one more prerequisite is met.
C9_ScoreBoundedAndMonotone ==
    /\ priority_score \in 0..10000
    /\ pc = "make_decision" =>
          \A k \in 0..(Len(rule.pre_requisites) - 1) :
              /\ ScoreWithMet(k) \in 0..10000
              /\ ScoreWithMet(k) <= ScoreWithMet(k + 1)

\* C9 witness: a score that the clamp cut to 100 and that lies above the score
\* of the same rule and user with no prerequisite met.
C9_Witness ==
    /\ pc = "make_decision"
    /\ priority_score = 10000
    /\ ScoreWithMet(0) < priority_score
    /\ PrereqsMet < PrereqsTotal

-----------------------------------------------------------------------------

\* the stated priority bonus: 20, 10, 0 for high, medium, low; 10 when unset
StatedPriorityBonus(level) ==
    LET lowered == Lower(level)
    IN  IF level = "" THEN 10
        ELSE IF lowered = "high" THEN 20
        ELSE IF lowered = "medium" THEN 10
        ELSE 0

\* the stated score before the clamp, times the number of prerequisites (times
\* 1 when there is none), in hundredths
StatedScoreTimesTotal ==
    LET d == IF PrereqsTotal > 0 THEN PrereqsTotal ELSE 1
    IN  100 * d * (50 + StatedPriorityBonus(rule.priority_level)
                   + (IF user_context.current_permissions # <<>> THEN 10 ELSE 0)
                   + (IF rule.auto_grant_enabled THEN 10 ELSE 0))
        + (IF PrereqsTotal > 0 THEN 3000 * PrereqsMet ELSE 0)

\* the same, clamped to [0, 100]
StatedClampedTimesTotal ==
    LET d == IF PrereqsTotal > 0 THEN PrereqsTotal ELSE 1
        sum == StatedScoreTimesTotal
    IN  IF sum > 10000 * d THEN 10000 * d
        ELSE IF sum < 0 THEN 0
        ELSE sum

StatedPriorityLevel == Lower(rule.priority_level) \in {"", "high", "medium", "low"}

\* C10 (as stated): the score equals clamp(50 + 30 * met_ratio + priority_bonus
\* + existing_permission_bonus + auto_grant_bonus, 0, 100).
C10_ScoreIsTheClampedSum ==
    (ScoreComputed /\ StatedPriorityLevel) =>
        LET d == IF PrereqsTotal > 0 THEN PrereqsTotal ELSE 1
        IN  priority_score * d = StatedClampedTimesTotal

\* C10 (amended): the score equals that clamped sum rounded to two decimals
\* (it is the nearest hundredth), with priority_bonus 20/10/0 and 10 when the
\* level is unset, 10 for a user holding a permission, 10 for an auto-grant
\* rule and a prerequisite term of 0 when there are no prerequisites.
C10_ScoreIsTheRoundedClampedSum ==
    (ScoreComputed /\ StatedPriorityLevel) =>
        LET d == IF PrereqsTotal > 0 THEN PrereqsTotal ELSE 1
            off == priority_score * d - StatedClampedTimesTotal
        IN  /\ 2 * off <= d
            /\ 2 * off >= -d

\* C10 witness: seven prerequisites of which some but not all are met, the
\* priority level unset, so that the sum has more than two decimals.
C10_Witness ==
    /\ ScoreComputed
    /\ rule.priority_level = ""
    /\ PrereqsTotal = 7
    /\ PrereqsMet \in 1..6
    /\ priority_score < 10000
    /\ priority_score * 7 # StatedClampedTimesTotal

-----------------------------------------------------------------------------

\* the evaluation left evaluate_request by an exception the caller receives
Raised == pc = "raised"

\* C12 (as stated): every evaluation ends with a decision record and no failure
\* reaches the caller, whatever fails on the way: no rule, no sheet, an empty
\* prerequisite phrase, a failing or malformed answer of the reasoning service.
C12_EveryEvaluationReturnsADecision ==
    /\ ~Raised
    /\ pc \in {"start", "find_rule", "check_prereqs", "score", "make_decision",
               "ai_decision", "rule_based", "done"}
    /\ pc = "done" => result.decision # ""

-----------------------------------------------------------------------------

\* no rule of the catalog matched: the evaluation runs on the temporary rule
NoRuleMatched == rule.id = 0 /\ pc \notin {"start", "find_rule", "raised"}

\* the mandatory check ran and the extraction gave it no row
NoRowMatched == validation.ran /\ validation.matching_rows_data = <<>>

\* C13: when no rule matches and no configuration row matches, the rule used is
\* the synthetic default (priority medium, no auto-grant, no prerequisites), the
\* mandatory check passes, the score is 60 (70 when the user holds a
\* permission) and the threshold policy's outcome is create_ticket, never grant.
C13_DefaultRuleFallsToTicket ==
    (NoRuleMatched /\ NoRowMatched) =>
        /\ rule.priority_level = "medium"
        /\ ~rule.auto_grant_enabled
        /\ rule.pre_requisites = <<>>
        /\ ~validation.rejection.present
        /\ ~ShortCircuited
        /\ priority_score = IF user_context.current_permissions # <<>> THEN 7000 ELSE 6000
        /\ ByThresholdPolicy => result.decision = "create_ticket"

\* C13 witness: a request no rule covers, no sheet, a user who holds a
\* permission, no reasoning service: score 70 and a ticket.
C13_Witness ==
    /\ NoRuleMatched /\ NoRowMatched
    /\ ByThresholdPolicy
    /\ ~use_ai_reasoning
    /\ user_context.current_permissions # <<>>
    /\ priority_score = 7000
    /\ result.decision = "create_ticket"

-----------------------------------------------------------------------------

\* C14: when no rule matches, the mandatory validation still runs against the
\* rows: a selected row with an unmatched required training or a violated
\* exception scenario gives reject with confidence 0.95, neither policy running.
C14_NoRuleStillValidated ==
    (NoRuleMatched /\ pc \in {"ai_decision", "rule_based", "done"}) =>
        /\ validation.ran
        /\ RowViolation =>
              /\ ShortCircuited
              /\ result.decision = "reject"
              /\ result.confidence = 95

\* C14 witness: the request matches no rule, the sheet has a row for the user's
\* role whose training the user lacks, and the evaluation rejects.
C14_Witness ==
    /\ NoRuleMatched
    /\ pc = "done"
    /\ RowSelected
    /\ RequiresTraining(SelectedRow)
    /\ ~validation.validation.training_match
    /\ result.decision = "reject"
    /\ result.confidence = 95
    /\ result.rule_id = 0

-----------------------------------------------------------------------------

\* the lookup has just returned
RuleLookedUp == pc = "check_prereqs"

\* the rules whose column holds the text as a substring, case-insensitively
SubstringHits(column, text) ==
    {i \in 1..Len(RuleCatalog) : Contains(Lower(text), Lower(RuleCatalog[i][column]))}

\* id is the first of the name hits, else the first of the type hits, else 0
FirstOfNameThenType(id, by_name, by_type) ==
    LET hits == IF by_name # {} THEN by_name ELSE by_type
    IN  IF hits = {} THEN id = 0
        ELSE id \in hits /\ \A j \in hits : id <= j

\* C15 (as stated): the rule found is the first rule in catalog order whose
\* permission_name holds the requested permission as a case-insensitive
\* substring, else the first whose permission_type holds the request type as a
\* case-insensitive substring, else None (the temporary rule is then built).
C15_LookupBySubstring ==
    RuleLookedUp =>
        FirstOfNameThenType(rule.id, SubstringHits("permission_name", requested_permission),
                            SubstringHits("permission_type", request_type))

-----------------------------------------------------------------------------

Executed == pc = "executed"

\* _create_ticket got no ticket number from ServiceNow
TicketingFailed ==
    \/ ~ticketing.client
    \/ ticketing.lookup # "found"
    \/ ticketing.answer # "ticket"

\* C16: the ticketing service is invoked only when the outcome is
\* create_ticket, and every create_ticket result carries a non-empty ticket id:
\* the ServiceNow number, or the placeholder TKT-<timestamp>-<request id> when
\* the client is not configured, raises or returns no success or no number.
C16_TicketForEveryCreateTicket ==
    Executed =>
        /\ (\E i \in 1..Len(calls) : calls[i] \in {"create_ticket", "servicenow"})
           => result.decision = "create_ticket"
        /\ result.decision = "create_ticket" =>
              /\ execution.status = "ticket_created"
              /\ execution.has_ticket_id
              /\ execution.ticket_id # ""
              /\ execution.ticket_id =
                     IF TicketingFailed
                     THEN "TKT-" \o ticketing.timestamp \o "-" \o ToString(request_id)
                     ELSE TicketNumber

\* C16 witness: the ServiceNow call raised and the create_ticket result
\* carries the placeholder of request 2.
C16_Witness ==
    /\ Executed
    /\ result.decision = "create_ticket"
    /\ ticketing.client /\ ticketing.lookup = "found" /\ ticketing.answer = "raises"
    /\ calls = <<"create_ticket", "servicenow">>
    /\ request_id = 2
    /\ execution.ticket_id = "TKT-20240101-093000-2"

-----------------------------------------------------------------------------

\* C17: grant gives status granted with auto_granted true, create_ticket gives
\* ticket_created with a ticket id, reject gives rejected, ask_for_more_info
\* gives needs_more_info; auto_granted is true exactly for grant and a ticket
\* id is present exactly for create_ticket.
C17_ExecutionMapping ==
    Executed =>
        /\ result.decision = "grant" => execution.status = "granted"
        /\ result.decision = "create_ticket" => execution.status = "ticket_created"
        /\ result.decision = "reject" => execution.status = "rejected"
        /\ result.decision = "ask_for_more_info" => execution.status = "needs_more_info"
        /\ execution.auto_granted <=> result.decision = "grant"
        /\ execution.has_ticket_id <=> result.decision = "create_ticket"
        /\ execution.has_ticket_id => execution.ticket_id # ""

\* C17 witness: a reject executed: status rejected, not auto-granted, no ticket.
C17_Witness ==
    /\ Executed
    /\ result.decision = "reject"
    /\ execution.status = "rejected"
    /\ ~execution.auto_granted
    /\ ~execution.has_ticket_id

-----------------------------------------------------------------------------

Selected == pc = "selected"

\* the candidate rows of the selection, in their order
Candidates == validation.matching_rows_data

\* position among the candidates of the row selected, 0 when none is
SelectedPosition ==
    IF ~RowSelected THEN 0
    ELSE CHOOSE i \in 1..Len(Candidates) : Candidates[i] = SelectedRow

\* the role looked for: the user's declared role when there is one, else the
\* second hyphen-delimited segment of the requested permission
StatedTargetRole ==
    LET segments == SplitOn(requested_permission, "-")
    IN  IF Strip(user_context.role) # "" THEN Lower(Strip(user_context.role))
        ELSE IF Len(segments) > 1 THEN Lower(Strip(segments[2]))
        ELSE ""

\* the application asked for: the first segment of the requested permission
StatedRequestedApp == Lower(Strip(SplitOn(requested_permission, "-")[1]))

\* a is b, or one holds the other (neither being empty)
ExactMatch(a, b) == a = b
PartialMatch(a, b) == a # "" /\ b # "" /\ (Contains(a, b) \/ Contains(b, a))

RoleMatches(row_data) ==
    \/ ExactMatch(StatedTargetRole, Lower(row_data.role))
    \/ PartialMatch(StatedTargetRole, Lower(row_data.role))

AppMatches(row_data) ==
    \/ StatedRequestedApp = ""
    \/ ExactMatch(StatedRequestedApp, Lower(row_data.application))
    \/ PartialMatch(StatedRequestedApp, Lower(row_data.application))

\* match_score, +10 for an exact and +5 for a partial role match, +10 for an
\* exact and +5 for a partial application match
CombinedScore(row_data) ==
    row_data.match_score
    + (IF ExactMatch(StatedTargetRole, Lower(row_data.role)) THEN 10
       ELSE IF PartialMatch(StatedTargetRole, Lower(row_data.role)) THEN 5 ELSE 0)
    + (IF ExactMatch(StatedRequestedApp, Lower(row_data.application)) THEN 10
       ELSE IF PartialMatch(StatedRequestedApp, Lower(row_data.application)) THEN 5
       ELSE 0)

\* the candidates that match the role and the application / the role
BothMatching == {i \in 1..Len(Candidates) :
                    RoleMatches(Candidates[i]) /\ AppMatches(Candidates[i])}
RoleMatching == {i \in 1..Len(Candidates) : RoleMatches(Candidates[i])}

\* C19 (as stated): whenever a candidate row matches both the target role and
\* the requested application, the selected row is one that matches both,
\* whatever the order of the candidates and the score of a role-only row.
C19_BothMatchPreferred ==
    (Selected /\ BothMatching # {}) => SelectedPosition \in BothMatching

-----------------------------------------------------------------------------

\* the first of the positions with the highest combined score
FirstBest(positions) ==
    CHOOSE i \in positions :
        \A j \in positions :
            \/ CombinedScore(Candidates[j]) < CombinedScore(Candidates[i])
            \/ CombinedScore(Candidates[j]) = CombinedScore(Candidates[i]) /\ i <= j

\* C20 (as stated): the selected row is the first candidate with the highest
\* combined score among those matching role and application, else among those
\* matching the role; when no row matches the role it is the first extracted
\* row; no row is selected, and the check passes, only when the extraction
\* produced no rows.  The target role is the user's declared role when present,
\* else the second hyphen-delimited segment of the requested permission.
C20_FirstBestThenFallback ==
    Selected =>
        /\ SelectedPosition =
               IF Candidates = <<>> THEN 0
               ELSE IF BothMatching # {} THEN FirstBest(BothMatching)
               ELSE IF RoleMatching # {} THEN FirstBest(RoleMatching)
               ELSE 1
        /\ ~RowSelected => Candidates = <<>> /\ ~validation.rejection.present

-----------------------------------------------------------------------------

\* the Decision evaluate_request returns when it runs alone on the request,
\* user and answers of a concurrent evaluation, against the catalog, the rows
\* and the store as they were at the start
DecisionAlone(local) ==
    LET folded == FoldedIn(UserStore[local.user_id], local.request[2], local.answer)
        found == FindPermissionRule(RuleCatalog, folded.requested_permission,
                                    local.request[1])
        alone_rule == IF found # 0 THEN RuleCatalog[found]
                      ELSE TemporaryRule(folded.requested_permission, local.request[1])
        status == CheckPreRequisites(alone_rule.pre_requisites, folded.user_context)
        score == CalculatePriorityScore(alone_rule, folded.user_context, status)
        checked == CheckMasterTrackerValidation(folded.requested_permission,
                                                folded.user_context, TrackerRows)
        made == IF checked.rejection.present THEN checked.rejection
                ELSE RuleBasedDecision(alone_rule, score, status, local.similar_requests)
    IN  [decision |-> made.decision, priority_score |-> score,
         reasoning |-> made.reasoning, confidence |-> made.confidence,
         rule_id |-> alone_rule.id,
         similar_requests_count |-> Len(local.similar_requests)]

-----------------------------------------------------------------------------

\* the words of the request, and those longer than 3 characters
WordsOfRequest == Range(Split(Lower(requested_permission)))
SignificantWordsOfRequest == {w \in WordsOfRequest : Len(w) > 3}

\* 3 when a significant word of the request appears in the role of the sheet
\* row or a word of the role appears in the request, plus 2 when a significant
\* word of the request appears in the application of the row
StatedMatchScore(row) ==
    (IF \/ \E w \in SignificantWordsOfRequest : Contains(w, Lower(row.role))
        \/ \E w \in Range(Split(Lower(row.role))) :
               Contains(w, Lower(requested_permission))
     THEN 3 ELSE 0)
    + (IF \E w \in SignificantWordsOfRequest : Contains(w, Lower(row.application))
       THEN 2 ELSE 0)

\* the sheet rows the extraction has to return
RowsToReturn ==
    {i \in 1..Len(master_tracker) :
        StatedMatchScore(master_tracker[i]) > 0 \/ master_tracker[i].role # ""}

\* C21: every extracted row carries the match_score 3 (role) + 2 (application)
\* of its sheet row, the extracted rows are in descending order of match_score,
\* and they are the rows with a positive score and the zero-score rows with a
\* role, each once.
C21_ExtractionScoresAndKeeps ==
    Selected =>
        /\ \A i \in 1..Len(Candidates) :
               /\ Candidates[i].row_index \in 1..Len(master_tracker)
               /\ Candidates[i].match_score =
                      StatedMatchScore(master_tracker[Candidates[i].row_index])
        /\ \A i, j \in 1..Len(Candidates) :
               i < j => /\ Candidates[i].match_score >= Candidates[j].match_score
                        /\ Candidates[i].row_index # Candidates[j].row_index
        /\ {Candidates[i].row_index : i \in 1..Len(Candidates)} = RowsToReturn

\* C21 witness: a sheet of three rows, given in ascending order of score, of
\* which one (no role, score 0) is left out, one is kept for its role with
\* score 0 and one without a role for its score 2, returned highest first.
C21_Witness ==
    /\ Selected
    /\ Len(master_tracker) = 3
    /\ Len(Candidates) = 2
    /\ master_tracker[1].role = "" /\ StatedMatchScore(master_tracker[1]) = 0
    /\ master_tracker[2].role # "" /\ StatedMatchScore(master_tracker[2]) = 0
    /\ master_tracker[3].role = "" /\ StatedMatchScore(master_tracker[3]) = 2
    /\ Candidates[1].row_index = 3
    /\ Candidates[2].row_index = 2

-----------------------------------------------------------------------------

Validated == pc = "validated"

\* the result of _validate_row_against_user_context for the selected row
RowValidation == validation.validation

\* the completed trainings that are not empty entries
GivenTrainings == {t \in Range(CompletedTrainings) : t # ""}

\* the issues of the validation that report the training
TrainingIssues ==
    {i \in 1..Len(RowValidation.validation_issues) :
        StartsWith(RowValidation.validation_issues[i], "REQUIRED TRAINING")}

\* a non-match of the training rule: invalid, no match, one issue
TrainingNonMatchReported ==
    IF RowValidation.training_match THEN TrainingIssues = {}
    ELSE /\ ~RowValidation.is_valid
         /\ Cardinality(TrainingIssues) = 1

\* C22 (as stated): when the row requires a training, training_match is true
\* iff some completed training equals it case-insensitively, is a substring of
\* it or contains it, shares at least 2 significant words with it, or has a
\* significant-word set that is a superset of the requirement's, significant
\* words being longer than 4 characters and not training, course or
\* certification; no completed training is a non-match; a non-match sets
\* is_valid and training_match to false and appends one issue.
C22_TrainingRuleWordsOverFour ==
    (Validated /\ RequiresTraining(SelectedRow)) =>
        /\ RowValidation.training_match
           <=> \E t \in GivenTrainings :
                   \/ CloseTo(Strip(SelectedRow.training_required), t, 4)
                   \/ SignificantWords(Lower(Strip(SelectedRow.training_required)), 4)
                          \subseteq SignificantWords(Lower(t), 4)
        /\ GivenTrainings = {} => ~RowValidation.training_match
        /\ TrainingNonMatchReported

\* C22 (amended): the same with significant words longer than 3 characters,
\* the superset rule applying only when the requirement has a significant word.
C22_TrainingRule ==
    (Validated /\ RequiresTraining(SelectedRow)) =>
        /\ RowValidation.training_match
           <=> \E t \in GivenTrainings :
                   \/ CloseTo(Strip(SelectedRow.training_required), t, 3)
                   \/ CoversWords(Strip(SelectedRow.training_required), t, 3)
        /\ GivenTrainings = {} => ~RowValidation.training_match
        /\ TrainingNonMatchReported

\* C22 witness: 'Data Loss Prevention Training' is required and the user
\* completed 'Data Loss Basics': the two share 'data' and 'loss', words of four
\* characters, and the training is taken for a match.
C22_Witness ==
    /\ Validated
    /\ SelectedRow.training_required = "Data Loss Prevention Training"
    /\ CompletedTrainings = <<"Data Loss Basics">>
    /\ RowValidation.training_match
    /\ RowValidation.is_valid

-----------------------------------------------------------------------------

\* the departments a carve-out of an exception scenario may name
CarveOutDepartments == {"finance", "hr"}

\* the departments the scenario carves out with 'non <department>'
CarvedOut(scenario) ==
    {d \in CarveOutDepartments : Contains("non " \o d, Lower(scenario))}

\* C23 (as stated): for an exception scenario with a carve-out 'non
\* <department>', whatever the department, a user whose department does not
\* match it gets exception_violated = true and is_valid = false; the
\* contractor, intern and external triggers block the corresponding employee
\* types; a user with no employee type triggers none of the three.
C23_ExceptionTriggers ==
    (Validated /\ SelectedRow.exception_scenario # "") =>
        LET scenario == SelectedRow.exception_scenario
            by_department ==
                \E d \in CarvedOut(scenario) :
                    ~Contains(d, Lower(user_context.department))
            by_type == ExceptionMatchesEmployeeType(scenario, user_context)
        IN  /\ (by_department \/ by_type)
               => RowValidation.exception_violated /\ ~RowValidation.is_valid
            /\ (user_context.context_data.employee_type = "" /\ ~by_department)
               => ~RowValidation.exception_violated

-----------------------------------------------------------------------------

\* the validation reports a role mismatch
RoleIssueReported ==
    \E i \in 1..Len(RowValidation.validation_issues) :
        StartsWith(RowValidation.validation_issues[i], "ROLE MISMATCH")

\* the training of the selected row is required and unmatched
TrainingUnmatched == RequiresTraining(SelectedRow) /\ ~RowValidation.training_match

\* C24: a role mismatch only appends an issue: is_valid is false iff a required
\* training is unmatched or an exception trigger fired, exception_violated is
\* not set and the mandatory check does not reject for the role alone; a row
\* with no training requirement, no exception scenario and no role is valid
\* with no issues.
C24_RoleRuleIsSoft ==
    Validated =>
        /\ ~RowValidation.is_valid
           <=> (TrainingUnmatched \/ RowValidation.exception_violated)
        /\ validation.rejection.present
           <=> (TrainingUnmatched \/ RowValidation.exception_violated)
        /\ (RoleIssueReported /\ SelectedRow.exception_scenario = "")
           => ~RowValidation.exception_violated
        /\ (/\ ~RequiresTraining(SelectedRow)
            /\ SelectedRow.exception_scenario = ""
            /\ SelectedRow.role = "")
           => RowValidation.is_valid /\ RowValidation.validation_issues = <<>>

\* C24 witness: the row is for a Data Analyst, the user is a Developer, nothing
\* else is required: the mismatch is reported, the row is valid and the check
\* does not reject.
C24_Witness ==
    /\ Validated
    /\ SelectedRow.role = "Data Analyst"
    /\ user_context.role = "Developer"
    /\ RoleIssueReported
    /\ Len(RowValidation.validation_issues) = 1
    /\ RowValidation.is_valid
    /\ ~RowValidation.exception_violated
    /\ ~validation.rejection.present

-----------------------------------------------------------------------------

Checked == pc = "checked"

\* the categories in their order of priority, each with what a lower-cased
\* phrase must contain to fall in it
Categories ==
    << [name |-> "identity", keywords |-> {"employee id"}],
       [name |-> "department", keywords |-> {"department"}],
       [name |-> "approval", keywords |-> {"approval"}],
       [name |-> "clearance", keywords |-> {"security", "clearance"}],
       [name |-> "training", keywords |-> {"training"}],
       [name |-> "role", keywords |-> {"role"}],
       [name |-> "generic", keywords |-> {}] >>

\* the first category all of whose keywords the phrase contains
StatedCategory(phrase) ==
    LET fits(i) == \A k \in Categories[i].keywords : Contains(k, Lower(phrase))
        first == CHOOSE i \in 1..Len(Categories) :
                     fits(i) /\ \A j \in 1..(i - 1) : ~fits(j)
    IN  Categories[first].name

\* the category the details of an entry tell of
CategoryOfDetails(details) ==
    IF StartsWith(details, "User ID") THEN "identity"
    ELSE IF StartsWith(details, "Department") THEN "department"
    ELSE IF details = "Requires manager approval" THEN "approval"
    ELSE IF StartsWith(details, "Security clearance level") THEN "clearance"
    ELSE IF StartsWith(details, "Training") THEN "training"
    ELSE IF StartsWith(details, "Role") THEN "role"
    ELSE "generic"

\* C25: the status has one {met, details} entry per distinct non-empty phrase
\* and none for an empty one; each entry is that of the first category, in the
\* order identity, department, approval, security clearance, training, role,
\* generic, whose keyword the phrase contains; an approval phrase is unmet and a
\* clearance phrase is met iff security_clearance_level >= 2.
C25_PhraseClassification ==
    Checked =>
        /\ DOMAIN pre_requisites_status = Range(rule.pre_requisites) \ {""}
        /\ \A p \in DOMAIN pre_requisites_status :
               LET entry == pre_requisites_status[p]
               IN  /\ DOMAIN entry = {"met", "details"}
                   /\ CategoryOfDetails(entry.details) = StatedCategory(p)
                   /\ StatedCategory(p) = "approval" => ~entry.met
                   /\ StatedCategory(p) = "clearance"
                      => (entry.met
                          <=> user_context.context_data.security_clearance_level >= 2)

\* C25 witness: an empty phrase and a phrase that names an approval and a
\* clearance, checked for a user of clearance level 3: one entry, the approval
\* one, unmet.
C25_Witness ==
    /\ Checked
    /\ rule.pre_requisites = <<"", "Manager Approval for Security Clearance">>
    /\ user_context.context_data.security_clearance_level = 3
    /\ DOMAIN pre_requisites_status = {"Manager Approval for Security Clearance"}
    /\ ~pre_requisites_status["Manager Approval for Security Clearance"].met
    /\ pre_requisites_status["Manager Approval for Security Clearance"].details
           = "Requires manager approval"

-----------------------------------------------------------------------------

\* a user context without its contextual-understanding annotation
WithoutAnnotation(ctx) ==
    [ctx EXCEPT !.context_data.contextual_understanding = NoUnderstanding]

\* C26 (as stated): a step of an evaluation leaves the user context as it was
\* but for the contextual-understanding annotation: the role and every other
\* user field are the same after the evaluation as before.
C26_OnlyAnnotationAdded ==
    [][WithoutAnnotation(user_context') = WithoutAnnotation(user_context)]_vars

\* C26 (amended): the user context changes only in the step that folds the
\* understanding in, which stores the annotation and, for a user without a
\* role, the extracted role; the prerequisite evaluation, the validation and
\* every later step leave the user context and the selected row's source, the
\* sheet rows read, unchanged.
C26_OnlyFoldInWrites ==
    [][/\ pc # "start" => user_context' = user_context
       /\ pc = "start" =>
              /\ [WithoutAnnotation(user_context') EXCEPT !.role = ""]
                     = [WithoutAnnotation(user_context) EXCEPT !.role = ""]
              /\ user_context'.role # user_context.role
                 => /\ user_context.role = ""
                    /\ \E answer \in UnderstandingAnswers :
                           user_context'.role = answer.extracted_role
       /\ validation'.ran =>
              \A i \in 1..Len(validation'.matching_rows_data) :
                  LET row_data == validation'.matching_rows_data[i]
                      row == master_tracker'[row_data.row_index]
                  IN  /\ row_data.role = row.role
                      /\ row_data.application = row.application]_vars

\* C26 witness: an evaluation has finished for a user who had no role (the
\* users have the role Data Analyst or none) and now has the extracted one.
C26_Witness ==
    /\ pc = "done"
    /\ user_context.role = "Developer"
    /\ user_context.context_data.contextual_understanding.present
    /\ validation.ran
    /\ validation.matching_rows_data # <<>>

-----------------------------------------------------------------------------

\* no reasoning service takes the decision: it is switched off or has no client
NoReasoningService == ~use_ai_reasoning \/ ~ai_client

\* C27: the threshold policy returns grant or create_ticket only; without a
\* reasoning service a reject comes from the mandatory check alone, with
\* confidence 0.95, ask_for_more_info does not occur, and a grant implies an
\* auto-grant rule, a score >= AUTO_GRANT_THRESHOLD and at least 80% of the
\* prerequisites met.
C27_PolicyGrantsOrTickets ==
    /\ ByThresholdPolicy => result.decision \in {"grant", "create_ticket"}
    /\ (pc = "done" /\ NoReasoningService) =>
           /\ result.decision \in {"grant", "create_ticket", "reject"}
           /\ result.decision = "reject"
              => /\ ShortCircuited
                 /\ validation.rejection.present
                 /\ result.confidence = 95
           /\ result.decision = "grant"
              => /\ rule.auto_grant_enabled
                 /\ priority_score >= 100 * AUTO_GRANT_THRESHOLD
                 /\ 10 * PrereqsMet >= 8 * PrereqsTotal

\* C27 witness: without a reasoning service, a grant for an auto-grant rule of
\* which four of the five prerequisites are met.
C27_Witness ==
    /\ pc = "done"
    /\ ~use_ai_reasoning /\ ~ai_client
    /\ result.decision = "grant"
    /\ rule.auto_grant_enabled
    /\ PrereqsTotal = 5
    /\ PrereqsMet = 4

-----------------------------------------------------------------------------

\* the final branch of the threshold policy: a score under
\* REQUIRE_APPROVAL_THRESHOLD, answered by create_ticket with confidence 0.80
LowPriorityBranch ==
    /\ ByThresholdPolicy
    /\ ~(priority_score >= 100 * AUTO_GRANT_THRESHOLD /\ rule.auto_grant_enabled)
    /\ priority_score < 100 * REQUIRE_APPROVAL_THRESHOLD

\* C28: the score is never below 50, so with REQUIRE_APPROVAL_THRESHOLD <= 50
\* the low-priority branch of the threshold policy is not taken and every
\* confidence of the threshold policy is 0.70, 0.75, 0.85 or 0.95.
C28_ScoreAtLeastFifty ==
    REQUIRE_APPROVAL_THRESHOLD <= 50 =>
        /\ ScoreComputed => priority_score >= 5000
        /\ pc = "make_decision" =>
              \A k \in 0..Len(rule.pre_requisites) : ScoreWithMet(k) >= 5000
        /\ ~LowPriorityBranch
        /\ ByThresholdPolicy => result.confidence \in {70, 75, 85, 95}

\* C28 witness: the threshold policy decides for a low-priority rule without
\* auto-grant, for a user without permissions and with one prerequisite of four
\* met: the score is 57.5, the lowest an evaluation produces, and the answer is
\* the moderate-priority ticket.
C28_Witness ==
    /\ ByThresholdPolicy
    /\ Lower(rule.priority_level) = "low"
    /\ ~rule.auto_grant_enabled
    /\ user_context.current_permissions = <<>>
    /\ PrereqsMet = 1
    /\ PrereqsTotal = 4
    /\ priority_score = 5750
    /\ ScoreWithMet(0) = 5000
    /\ result.decision = "create_ticket"
    /\ result.confidence = 75

-----------------------------------------------------------------------------

\* the validation of one row for the user of the evaluation
ValidationOf(row_data) == ValidateRowAgainstUserContext(row_data, user_context)

\* by the validation v of the row, the row requires a training that the user's
\* trainings do not match
TrainingViolatedIn(row_data, v) ==
    ~IsBlankValue(Strip(row_data.training_required)) /\ ~v.training_match

ViolatedOn(row_data) ==
    LET v == ValidationOf(row_data)
    IN  TrainingViolatedIn(row_data, v) \/ v.exception_violated

\* the matching rows that were not selected
OtherMatchingRows ==
    {validation.matching_rows_data[i] : i \in 1..Len(validation.matching_rows_data)}
    \ {validation.best_matching_row}

\* C29: the mandatory check validates the selected row only: it rejects exactly
\* when that row violates the training or the exception rule, whatever the other
\* matching rows do, and when the selected row violates both rules the reject
\* reasoning is the training reason alone.
C29_OnlySelectedRowRejects ==
    (pc = "done" /\ validation.ran /\ validation.matching_rows_data # <<>>) =>
        LET selected == validation.best_matching_row
            v == ValidationOf(selected)
            training == TrainingViolatedIn(selected, v)
        IN  /\ validation.rejection.present <=> (training \/ v.exception_violated)
            /\ ShortCircuited <=> validation.rejection.present
            /\ validation.rejection.present
               => /\ result.decision = "reject"
                  /\ result.reasoning = validation.rejection.reasoning
            /\ (training /\ v.exception_violated)
               => /\ validation.rejection.present
                  /\ StartsWith(validation.rejection.reasoning, "Required training '")
                  /\ ~Contains("EXCEPTION VIOLATION", validation.rejection.reasoning)

\* C29 witness: another matching row violates a rule for this user, the
\* selected row does not, and the evaluation ends without the reject.
C29_Witness ==
    /\ pc = "done"
    /\ validation.ran
    /\ validation.matching_rows_data # <<>>
    /\ ~ViolatedOn(validation.best_matching_row)
    /\ \E other \in OtherMatchingRows : ViolatedOn(other)
    /\ ~validation.rejection.present
    /\ result.decision # "reject"

\* a state of the second case of C29: the selected row violates both rules
C29_BothViolated ==
    /\ pc = "done"
    /\ validation.ran
    /\ TrainingViolatedIn(validation.best_matching_row,
                          ValidationOf(validation.best_matching_row))
    /\ ValidationOf(validation.best_matching_row).exception_violated
    /\ result.decision = "reject"
    /\ result.confidence = 95

-----------------------------------------------------------------------------

\* process_request is between the creation of the record and the audit entry
RecordOpen == pc \in {"execute", "executed", "log_audit"}

\* no process_request call is running: none was made, or the last one returned
\* or raised
NoCallRunning == pc \in {"idle", "returned", "raised"}

\* the records the store held when the running call began
RecordsBefore ==
    IF RecordOpen \/ pc = "returned"
    THEN SubSeq(store.requests, 1, request_id - 1)
    ELSE store.requests

\* the steps of one call that got an evaluation, in their order: the record is
\* created after the evaluation with the decision as status, the decision is
\* executed, the record takes the final status, then one audit entry is logged
\* with that status; the evaluation saw the records before its own only
StepsInOrder ==
    /\ \A i \in 1..Len(store.requests) : store.requests[i].id = i
    /\ \A i \in 1..Len(store.audit) :
          /\ store.audit[i].request_id = i
          /\ store.audit[i].decision = store.requests[i].status
    /\ Len(store.requests) = Len(store.audit) + (IF RecordOpen THEN 1 ELSE 0)
    /\ RecordOpen \/ pc = "returned" => request_id = Len(store.requests)
    /\ pc \in {"execute", "executed"} =>
          store.requests[request_id].status = result.decision
    /\ pc \in {"log_audit", "returned"} =>
          /\ store.requests[request_id].status = execution.status
          /\ execution.status = ExecutionOf(result.decision, execution.ticket_id).status
    /\ pc = "returned" => store.audit[request_id].decision = execution.status
    /\ pc \in {"add_request", "execute", "executed", "log_audit", "returned"} =>
          /\ similar_requests = GetSimilarRequests(RecordsBefore, requested_permission)
          /\ result.similar_requests_count = Len(similar_requests)

\* C30 (as stated): for each request, process_request evaluates, creates exactly
\* one record with the decision as status, executes the decision, updates the
\* record with the final status and logs exactly one audit entry; the final
\* status and the audit decision are the execution mapping of the decision, and
\* the evaluation does not see the request's own record among the similar
\* requests.
C30_ProcessRequestSteps ==
    /\ StepsInOrder
    /\ NoCallRunning =>
          /\ Len(store.requests) = requests_submitted
          /\ Len(store.audit) = requests_submitted

\* a call that returned after a similar request had been granted: its evaluation
\* saw that record and not its own, and its ticket is the final status of the
\* record and the decision of the audit entry
C30_SecondSimilarRequest ==
    /\ pc = "returned"
    /\ request_id = 2
    /\ store.requests[1].requested_permission = requested_permission
    /\ store.requests[1].auto_granted
    /\ similar_requests = <<TRUE>>
    /\ result.decision = "create_ticket"
    /\ store.requests[2].status = "ticket_created"
    /\ store.audit[2].decision = "ticket_created"

====
